---------------------------- MODULE Spec2Model ----------------------------
(***************************************************************************)
(* A model of the 2dclock repository: six near-duplicate programs, each    *)
(* drawing an analog clock with OpenGL.  The programs are                  *)
(*   "stroke"  src/src/main.cpp   1..335  (seven-segment line numerals)    *)
(*   "filled"  src/src/main.cpp 337..737  (seven-segment filled numerals)  *)
(*   "plain"   src/src/main.cpp 739..962  (outline dial, no numerals)      *)
(*   "spade"   src/unnamed/part_000       (bezel, no numerals)             *)
(*   "block"   src/unnamed/part_001       (block numerals, quad ticks)     *)
(*   "noticks" src/unnamed/part_002       (block numerals, no ticks)       *)
(*                                                                         *)
(* Floats are fixed-point numbers with Unit parts per 1.0, angles are      *)
(* integers with TURN parts per revolution.                                *)
(***************************************************************************)
EXTENDS Integers, Sequences, FiniteSets, TLC

VARIABLES
    variant,    \* which of the six programs runs
    pc,         \* position of main: a phase name
    code,       \* the statements of the current phase still to run
    glfwInited, \* glfwInit succeeded and glfwTerminate not yet called
    win,        \* the window handle (0 = none)
    prog,       \* the program handle (0 = none)
    progUsed,   \* the program bound by glUseProgram (0 = none)
    nextName,   \* next GL object name handed out by glGen*
    tmp,        \* the shared vertex buffer of main (std::vector<float>)
    meshes,     \* mesh key -> [vao, vbo, count, mode, data]
    closeReq,   \* the window's close flag
    tm,         \* the local time sampled in this frame
    aS, aM, aH, \* the three hand angles of this frame
    uAngle, uScale, uTrans, uColor,   \* the four uniforms of the program
    lineWidth,  \* glLineWidth state
    drawLog,    \* the draw calls issued since the last glClear
    glLog,      \* the release calls issued so far
    exitCode,   \* main's return value (-1 = still running)
    diag        \* lines written to stderr

vars == <<variant, pc, code, glfwInited, win, prog, progUsed, nextName, tmp, meshes,
          closeReq, tm, aS, aM, aH, uAngle, uScale, uTrans, uColor, lineWidth,
          drawLog, glLog, exitCode, diag>>

Variants == {"stroke", "filled", "plain", "spade", "block", "noticks"}

(***************************************************************************)
(* Bounds of the model.                                                    *)
(***************************************************************************)
\* sub-second resolution of the sampled clock: nowSeconds() has SubDen
\* possible fractions k/SubDen per second
SubDen == 2

(***************************************************************************)
(* Fixed-point arithmetic standing for float.                              *)
(***************************************************************************)
Unit == 10 ^ 4

Abs(x) == IF x < 0 THEN -x ELSE x

\* x / d rounded to nearest, symmetric about 0 (d > 0)
RoundDiv(x, d) == IF x >= 0 THEN (2 * x + d) \div (2 * d)
                            ELSE -((2 * (-x) + d) \div (2 * d))

\* product of two fixed-point numbers
FMul(a, b) == RoundDiv(a * b, Unit)

\* quotient of two fixed-point numbers (b # 0)
FDiv(a, b) == IF b > 0 THEN RoundDiv(a * Unit, b) ELSE -RoundDiv(a * Unit, -b)

\* floor of the square root of an integer below 46340^2, by bisection
RECURSIVE SqrtBetween(_, _, _)
SqrtBetween(x, lo, hi) ==
    IF hi - lo <= 1 THEN lo
    ELSE LET mid == (lo + hi) \div 2
         IN  IF mid * mid <= x THEN SqrtBetween(x, mid, hi)
                               ELSE SqrtBetween(x, lo, mid)
\* std::sqrt on the fixed-point grid
FSqrt(x) == SqrtBetween(x * Unit, 0, 46340)

(***************************************************************************)
(* Angles.  TURN parts per revolution; the finest angle any hand takes is  *)
(* 1/(43200*SubDen) of a turn (the hour hand, once per clock fraction).    *)
(***************************************************************************)
TURN == 43200 * SubDen
QuarterTurn == TURN \div 4

\* 2*pi in fixed point (6.28318530718) and pi/4
TAU == 62832
PiOver4 == TAU \div 8

\* Taylor polynomials on [0, pi/4], x in fixed-point radians
CosPoly(x) ==
    LET x2 == (x * x) \div Unit
        x4 == (x2 * x2) \div Unit
        x6 == (x4 * x2) \div Unit
    IN  Unit - x2 \div 2 + x4 \div 24 - x6 \div 720
SinPoly(x) ==
    LET x2 == (x * x) \div Unit
        x3 == (x * x2) \div Unit
        x5 == (x3 * x2) \div Unit
        x7 == (x5 * x2) \div Unit
    IN  x - x3 \div 6 + x5 \div 120 - x7 \div 5040

\* <<cos, sin>> of num/den turn (den > 0), by reduction to the first octant
CosSin(num, den) ==
    LET n   == num % den
        q   == (8 * n) \div den
        rem == 8 * n - q * den              \* in 1/(8*den) turn
        phi == (PiOver4 * rem) \div den
        psi == (PiOver4 * (den - rem)) \div den
        c   == CosPoly(phi)
        s   == SinPoly(phi)
        cc  == CosPoly(psi)
        sc  == SinPoly(psi)
    IN  CASE q = 0 -> <<c, s>>
          [] q = 1 -> <<sc, cc>>
          [] q = 2 -> <<-s, c>>
          [] q = 3 -> <<-cc, sc>>
          [] q = 4 -> <<-c, -s>>
          [] q = 5 -> <<-sc, -cc>>
          [] q = 6 -> <<s, -c>>
          [] OTHER -> <<cc, -sc>>

\* std::cos / std::sin (and GLSL cos / sin) of an angle in TURN units
Cos(a) == CosSin(a, TURN)[1]
Sin(a) == CosSin(a, TURN)[2]

(***************************************************************************)
(* Clock Angle Calculator: the time decomposition and toA of each main.    *)
(***************************************************************************)
\* every local time localtime() can deliver, with the sub-second part of
\* nowSeconds() in 1/SubDen seconds
Times == [hour : 0..23, min : 0..59, sec : 0..59, frac : 0..(SubDen - 1)]

NoTime == [hour |-> 0, min |-> 0, sec |-> 0, frac |-> 0]

\* "plain" and "spade" add the sub-second fraction to tm_sec (smooth sweep),
\* the other four truncate to the integer second (tick)
\* (C28 mutant) no program adds the fraction of the second
SweepingNowhere(v) == FALSE
Sweeping(v) == v \in {"plain", "spade"}

\* s, in 1/SubDen seconds
secondsOf(v, t) == IF Sweeping(v) THEN t.sec * SubDen + t.frac
                                  ELSE t.sec * SubDen
\* m = tm_min + s/60.0, in 1/(60*SubDen) minutes
minutesOf(v, t) == t.min * (60 * SubDen) + secondsOf(v, t)
\* (C2 mutant) the hours without "% 12"
hoursOfWholeDay(v, t) == t.hour * (3600 * SubDen) + minutesOf(v, t)
\* h = (tm_hour % 12) + m/60.0, in 1/(3600*SubDen) hours
hoursOf(v, t) == (t.hour % 12) * (3600 * SubDen) + minutesOf(v, t)

\* x/per as a fraction of a turn, in TURN units (x parts out of per)
Frac(x, per) == x * (TURN \div per)

\* (C5 mutant) the mapping turned counter-clockwise
toACounterClockwise(f) == f + QuarterTurn
\* toA / toAngle: float(-TAU*f + TAU*0.25), f in TURN units
toA(f) == -f + QuarterTurn

secondAngle(v, t) == toA(Frac(secondsOf(v, t), 60 * SubDen))
minuteAngle(v, t) == toA(Frac(minutesOf(v, t), 3600 * SubDen))
\* (C4 mutant) an hour hand that moves in hourly steps
hourAngleStepped(v, t) == toA(Frac((t.hour % 12) * (3600 * SubDen), 43200 * SubDen))
hourAngle(v, t)   == toA(Frac(hoursOf(v, t), 43200 * SubDen))

(***************************************************************************)
(* Geometry generators.  A vertex buffer is a flat sequence of floats,     *)
(* x then y of each point, as std::vector<float> holds it.                 *)
(***************************************************************************)
\* (C27 mutant) a generator that appends to what the buffer holds
ClearNothing(v) == v

\* v.clear()
Clear(v) == SubSeq(v, 1, 0)

\* addTri / the tri and addTri lambdas: v.insert(v.end(), {six floats})
addTri(v, x1, y1, x2, y2, x3, y3) == v \o <<x1, y1, x2, y2, x3, y3>>

\* addBox: two triangles over the rectangle (x0,y0)..(x1,y1)
addBox(v, x0, y0, x1, y1) ==
    addTri(addTri(v, x0, y0, x1, y0, x1, y1), x0, y0, x1, y1, x0, y1)

\* number of points of a buffer: (GLsizei)(v.size()/2)
NPoints(v) == Len(v) \div 2
\* point k (1-based) of a buffer
Pt(v, k) == <<v[2 * k - 1], v[2 * k]>>

\* what i*(6.28318530718f/seg) and float(i)/segments are for seg = 0 and i = 0
\* (0 times infinity, 0 over 0), and what std::cos, std::sin and any product
\* make of it
NaN == "NaN"

\* (C24 mutant) a strip ring that is not closed: the pair at i = seg is left out
genRingOpen(seg, r0, r1, v) ==
    Clear(v) \o
    [k \in 1..(4 * seg) |->
        LET i  == (k - 1) \div 4
            j  == (k - 1) % 4
            cs == CosSin(i, seg)
        IN  CASE j = 0 -> FMul(cs[1], r0)
              [] j = 1 -> FMul(cs[2], r0)
              [] j = 2 -> FMul(cs[1], r1)
              [] OTHER -> FMul(cs[2], r1)]

\* genRing as a triangle strip ("stroke", "filled", "spade"): for i in 0..seg
\* the pair (c*r0, s*r0), (c*r1, s*r1) at t = i*(TAU/seg)
genRing(seg, r0, r1, v) ==
    IF seg = 0 THEN Clear(v) \o <<NaN, NaN, NaN, NaN>>
    ELSE
    Clear(v) \o
    [k \in 1..(4 * (seg + 1)) |->
        LET i  == (k - 1) \div 4
            j  == (k - 1) % 4
            cs == CosSin(i, seg)
        IN  CASE j = 0 -> FMul(cs[1], r0)
              [] j = 1 -> FMul(cs[2], r0)
              [] j = 2 -> FMul(cs[1], r1)
              [] OTHER -> FMul(cs[2], r1)]

\* genRing as a triangle list ("block", "noticks"): for i in 0..seg-1 the
\* two triangles of the slice between a0 = 2pi*i/seg and a1 = 2pi*(i+1)/seg
genRingTris(seg, r0, r1, v) ==
    Clear(v) \o
    [k \in 1..(12 * seg) |->
        LET i  == (k - 1) \div 12
            j  == (k - 1) % 12
            c0 == CosSin(i, seg)
            c1 == CosSin(i + 1, seg)
        IN  CASE j = 0  -> FMul(c0[1], r0) [] j = 1  -> FMul(c0[2], r0)
              [] j = 2  -> FMul(c0[1], r1) [] j = 3  -> FMul(c0[2], r1)
              [] j = 4  -> FMul(c1[1], r1) [] j = 5  -> FMul(c1[2], r1)
              [] j = 6  -> FMul(c0[1], r0) [] j = 7  -> FMul(c0[2], r0)
              [] j = 8  -> FMul(c1[1], r1) [] j = 9  -> FMul(c1[2], r1)
              [] j = 10 -> FMul(c1[1], r0) [] OTHER  -> FMul(c1[2], r0)]

\* genDiscFan / genDisc as a triangle fan ("stroke", "filled", "plain",
\* "spade"): the centre, then seg+1 points of the unit circle
genDiscFan(seg, v) ==
    IF seg = 0 THEN Clear(v) \o <<0, 0, NaN, NaN>>
    ELSE
    (Clear(v) \o <<0, 0>>) \o
    [k \in 1..(2 * (seg + 1)) |->
        LET i  == (k - 1) \div 2
            cs == CosSin(i, seg)
        IN  IF (k - 1) % 2 = 0 THEN cs[1] ELSE cs[2]]

\* genDisc ("block") and genDiscFan ("noticks") as a triangle list: for i in
\* 0..seg-1 the triangle centre, r*(cos a0, sin a0), r*(cos a1, sin a1)
genDisc(v, seg, r) ==
    Clear(v) \o
    [k \in 1..(6 * seg) |->
        LET i  == (k - 1) \div 6
            j  == (k - 1) % 6
            c0 == CosSin(i, seg)
            c1 == CosSin(i + 1, seg)
        IN  CASE j = 0 -> 0 [] j = 1 -> 0
              [] j = 2 -> FMul(r, c0[1]) [] j = 3 -> FMul(r, c0[2])
              [] j = 4 -> FMul(r, c1[1]) [] OTHER -> FMul(r, c1[2])]

\* genCircle ("plain") / genCircleLine ("spade"): seg points of the unit circle
genCircle(segments, v) ==
    Clear(v) \o
    [k \in 1..(2 * segments) |->
        LET cs == CosSin((k - 1) \div 2, segments)
        IN  IF (k - 1) % 2 = 0 THEN cs[1] ELSE cs[2]]

\* (C9 mutant) one tick short
genTicksOneShort(count, innerR, outerR, v) ==
    Clear(v) \o [k \in 1..(4 * (count - 1)) |-> 0]
\* genTicks ("stroke", "filled", "plain", "spade"): count radial line segments
genTicks(count, innerR, outerR, v) ==
    Clear(v) \o
    [k \in 1..(4 * count) |->
        LET i  == (k - 1) \div 4
            j  == (k - 1) % 4
            cs == CosSin(i, count)
        IN  CASE j = 0 -> FMul(cs[1], innerR)
              [] j = 1 -> FMul(cs[2], innerR)
              [] j = 2 -> FMul(cs[1], outerR)
              [] OTHER -> FMul(cs[2], outerR)]

\* addRadialBar ("block"): a filled quad about the ray at angle i/count turn
addRadialBar(v, i, count, innerR, outerR, halfW) ==
    LET cs  == CosSin(i, count)
        ca  == cs[1]
        sa  == cs[2]
        tx  == -sa
        ty  == ca
        ix  == FMul(ca, innerR)
        iy  == FMul(sa, innerR)
        ox  == FMul(ca, outerR)
        oy  == FMul(sa, outerR)
        ilx == ix - FMul(tx, halfW)
        ily == iy - FMul(ty, halfW)
        irx == ix + FMul(tx, halfW)
        iry == iy + FMul(ty, halfW)
        olx == ox - FMul(tx, halfW)
        oly == oy - FMul(ty, halfW)
        orx == ox + FMul(tx, halfW)
        ory == oy + FMul(ty, halfW)
    IN  addTri(addTri(v, ilx, ily, irx, iry, orx, ory), ilx, ily, orx, ory, olx, oly)

\* genTicksQuads ("block"): v.clear(); for i in 0..count-1 addRadialBar(...),
\* twelve floats per bar
genTicksQuads(v, count, innerR, outerR, width) ==
    Clear(v) \o
    [k \in 1..(12 * count) |->
        addRadialBar(<<>>, (k - 1) \div 12, count, innerR, outerR,
                     FMul(width, 5000))[((k - 1) % 12) + 1]]

(***************************************************************************)
(* Hands.  Every hand is a triangle list about the pivot (0,0).            *)
(***************************************************************************)
\* the loop "for(i=1; i<fan.size()/2-1; i++) tri(centre, fan[i]*r, fan[i+1]*r)"
\* that re-triangulates a genDiscFan fan, moved to (0, cy): six floats per i
fanTris(v, fan, r, cy) ==
    v \o
    [k \in 1..(6 * (Len(fan) \div 2 - 2)) |->
        LET i == ((k - 1) \div 6) + 1
            j == (k - 1) % 6
        IN  CASE j = 0 -> 0
              [] j = 1 -> cy
              [] j = 2 -> FMul(fan[2 * i + 1], r)
              [] j = 3 -> FMul(fan[2 * i + 2], r) + cy
              [] j = 4 -> FMul(fan[2 * i + 3], r)
              [] OTHER -> FMul(fan[2 * i + 4], r) + cy]

\* genSpadeHour ("stroke", "spade"): stem w=0.60 L=0.72, bulb r=0.40 at L+0.15
genSpadeHour(v) ==
    LET w    == 6000
        L    == 7200
        stem == addTri(addTri(Clear(v),
                    FMul(-5000, w), 0, FMul(5000, w), 0, FMul(5000, w), L),
                    FMul(-5000, w), 0, FMul(5000, w), L, FMul(-5000, w), L)
        fan  == genDiscFan(48, <<>>)
    IN  fanTris(stem, fan, 4000, L + 1500)

\* genPointerMinute ("stroke", "spade"): stem w=0.30 to L-0.10, tip at L=0.95
genPointerMinute(v) ==
    LET w  == 3000
        L  == 9500
        t1 == addTri(Clear(v), FMul(-5000, w), 0, FMul(5000, w), 0,
                     FMul(5000, w), L - 1000)
        t2 == addTri(t1, FMul(-5000, w), 0, FMul(5000, w), L - 1000,
                     FMul(-5000, w), L - 1000)
    IN  addTri(t2, FMul(-3500, w), L - 1000, FMul(3500, w), L - 1000, 0, L)

\* genSecondThin ("stroke", "spade"): v = { rectangle w=0.12, L=1.00 }
genSecondThin(v) ==
    LET w == 1200
        L == 10000
    IN  <<FMul(-5000, w), 0, FMul(5000, w), 0, FMul(5000, w), L,
          FMul(-5000, w), 0, FMul(5000, w), L, FMul(-5000, w), L>>

\* genUnitHand ("plain"): v.assign(rectangle (-0.5,0)..(0.5,1))
genUnitHand(v) ==
    <<-5000, 0, 5000, 0, 5000, 10000,
      -5000, 0, 5000, 10000, -5000, 10000>>

\* genHourHand of "filled": stem, spade bulb, tail
genHourHandFilled(v) ==
    LET L    == 6200
        W    == 1200
        TAIL == 800
        SP_R == 1400
        SP_Y == L - 800
        stem == addTri(addTri(Clear(v),
                    FMul(-5000, W), 0, FMul(5000, W), 0, FMul(5000, W), L - 1200),
                    FMul(-5000, W), 0, FMul(5000, W), L - 1200,
                    FMul(-5000, W), L - 1200)
        fan  == genDiscFan(48, <<>>)
        bulb == fanTris(stem, fan, SP_R, SP_Y)
        t1   == addTri(bulb, FMul(-5000, W), 0, FMul(5000, W), 0,
                       FMul(5000, W), -TAIL)
    IN  addTri(t1, FMul(-5000, W), 0, FMul(5000, W), -TAIL, FMul(-5000, W), 0)

\* genMinuteHand of "filled": base rectangle, tapered tip, tail
genMinuteHandFilled(v) ==
    LET L    == 8800
        W    == 800
        TAIL == 1000
        t1 == addTri(Clear(v), FMul(-5000, W), 0, FMul(5000, W), 0,
                     FMul(5000, W), L - 1200)
        t2 == addTri(t1, FMul(-5000, W), 0, FMul(5000, W), L - 1200,
                     FMul(-5000, W), L - 1200)
        t3 == addTri(t2, FMul(-4500, W), L - 1200, FMul(4500, W), L - 1200, 0, L)
        t4 == addTri(t3, FMul(-5000, W), 0, FMul(5000, W), 0, FMul(5000, W), -TAIL)
    IN  addTri(t4, FMul(-5000, W), 0, FMul(5000, W), -TAIL, FMul(-5000, W), 0)

\* genSecondHand of "filled": needle, tail, hub disc
genSecondHandFilled(v) ==
    LET L      == 9500
        W      == 200
        TAIL_L == 1800
        HUB_R  == 350
        t1 == addTri(Clear(v), FMul(-5000, W), 0, FMul(5000, W), 0, FMul(5000, W), L)
        t2 == addTri(t1, FMul(-5000, W), 0, FMul(5000, W), L, FMul(-5000, W), L)
        t3 == addTri(t2, FMul(-5000, W), 0, FMul(5000, W), 0,
                     FMul(5000, W), -TAIL_L)
        t4 == addTri(t3, FMul(-5000, W), 0, FMul(5000, W), -TAIL_L,
                     FMul(-5000, W), 0)
        fan == genDiscFan(32, <<>>)
    IN  fanTris(t4, fan, HUB_R, 0)

\* genHourHand of "block" and of "noticks": stem box and tail box
genHourHandBox(v) ==
    LET L    == 5000
        W    == 1000
        TAIL == 600
    IN  addBox(addBox(Clear(v), FMul(-5000, W), 0, FMul(5000, W), L),
               FMul(-5000, W), -TAIL, FMul(5000, W), 0)

\* genMinuteHand of "block" and of "noticks": base box, tip, tail box
genMinuteHandBox(v) ==
    LET L    == 7200
        W    == 600
        TAIL == 800
        b1 == addBox(Clear(v), FMul(-5000, W), 0, FMul(5000, W), L - 1000)
        t1 == addTri(b1, FMul(-4500, W), L - 1000, FMul(4500, W), L - 1000, 0, L)
    IN  addBox(t1, FMul(-5000, W), -TAIL, FMul(5000, W), 0)

\* genSecondHand of "block": needle, tail, genDisc(fan, 32, HUB_R) appended
genSecondHandBlock(v) ==
    LET L      == 8200
        W      == 180
        TAIL_L == 1500
        HUB_R  == 300
        b1 == addBox(Clear(v), FMul(-5000, W), 0, FMul(5000, W), L)
        b2 == addBox(b1, FMul(-5000, W), -TAIL_L, FMul(5000, W), 0)
    IN  b2 \o genDisc(<<>>, 32, HUB_R)

\* genSecondHand of "noticks": needle, tail, genDiscFan(32) scaled by HUB_R
genSecondHandNoticks(v) ==
    LET L      == 8200
        W      == 180
        TAIL_L == 1500
        HUB_R  == 300
        b1  == addBox(Clear(v), FMul(-5000, W), 0, FMul(5000, W), L)
        b2  == addBox(b1, FMul(-5000, W), -TAIL_L, FMul(5000, W), 0)
        fan == genDisc(<<>>, 32, Unit)
    IN  b2 \o [k \in 1..Len(fan) |-> FMul(fan[k], HUB_R)]

(***************************************************************************)
(* Glyph Builder.                                                          *)
(***************************************************************************)
\* addSeg ("stroke"): one line segment, two points
addSeg(v, x1, y1, x2, y2) == v \o <<x1, y1, x2, y2>>

\* addQuad ("filled"): the segment (x1,y1)-(x2,y2) as a rectangle of
\* thickness t, two triangles a b c / a c d
addQuad(v, x1, y1, x2, y2, t) ==
    LET dx0 == x2 - x1
        dy0 == y2 - y1
        len == FSqrt(FMul(dx0, dx0) + FMul(dy0, dy0))
    IN  IF len = 0 THEN v
        ELSE LET dx == FDiv(dx0, len)
                 dy == FDiv(dy0, len)
                 px == FMul(-dy, FMul(t, 5000))
                 py == FMul(dx, FMul(t, 5000))
                 ax == x1 + px   ay == y1 + py
                 bx == x2 + px   by == y2 + py
                 cx == x2 - px   cy == y2 - py
                 dx2 == x1 - px  dy2 == y1 - py
             IN  v \o <<ax, ay, bx, by, cx, cy, ax, ay, cx, cy, dx2, dy2>>

\* segment positions of the stroke digits: X0, X1, Y0, Y1, Ym (main.cpp:144)
LinesBox == [X0 |-> -4000, X1 |-> 4000, Y0 |-> -5000, Y1 |-> 5000, Ym |-> 0]
\* segment positions of the filled digits (main.cpp:537)
FilledBox == [X0 |-> -4500, X1 |-> 4500, Y0 |-> -6000, Y1 |-> 6000, Ym |-> 0]

\* the lambdas A..G: the end points <<x1, y1, x2, y2>> of a named segment
segEnds(b, name) ==
    CASE name = "A" -> <<b.X0, b.Y1, b.X1, b.Y1>>     \* top
      [] name = "B" -> <<b.X1, b.Y1, b.X1, b.Ym>>     \* upper right
      [] name = "C" -> <<b.X1, b.Ym, b.X1, b.Y0>>     \* lower right
      [] name = "D" -> <<b.X0, b.Y0, b.X1, b.Y0>>     \* bottom
      [] name = "E" -> <<b.X0, b.Ym, b.X0, b.Y0>>     \* lower left
      [] name = "F" -> <<b.X0, b.Y1, b.X0, b.Ym>>     \* upper left
      [] OTHER      -> <<b.X0, b.Ym, b.X1, b.Ym>>     \* "G", middle

\* (C10 mutant) every segment lit whatever the digit
switchLinesAllLit(d) == <<"A", "B", "C", "D", "E", "F", "G">>
\* the switch of genDigitLines: the lambdas called for digit d, in order
switchLines(d) ==
    CASE d = 0 -> <<"A", "B", "C", "D", "E", "F">>
      [] d = 1 -> <<"B", "C">>
      [] d = 2 -> <<"A", "B", "G", "E", "D">>
      [] d = 3 -> <<"A", "B", "G", "C", "D">>
      [] d = 4 -> <<"F", "G", "B", "C">>
      [] d = 5 -> <<"A", "F", "G", "C", "D">>
      [] d = 6 -> <<"A", "F", "G", "E", "D", "C">>
      [] d = 7 -> <<"A", "B", "C">>
      [] d = 8 -> <<"A", "B", "C", "D", "E", "F", "G">>
      [] d = 9 -> <<"A", "B", "C", "D", "F", "G">>
      [] OTHER -> <<>>

\* the switch of genDigitFilled
switchFilled(d) ==
    CASE d = 0 -> <<"A", "B", "C", "D", "E", "F">>
      [] d = 1 -> <<"B", "C">>
      [] d = 2 -> <<"A", "B", "G", "E", "D">>
      [] d = 3 -> <<"A", "B", "G", "C", "D">>
      [] d = 4 -> <<"F", "G", "B", "C">>
      [] d = 5 -> <<"A", "F", "G", "C", "D">>
      [] d = 6 -> <<"A", "F", "G", "E", "D", "C">>
      [] d = 7 -> <<"A", "B", "C">>
      [] d = 8 -> <<"A", "B", "C", "D", "E", "F", "G">>
      [] d = 9 -> <<"A", "B", "C", "D", "F", "G">>
      [] OTHER -> <<>>

RECURSIVE linesFrom(_, _, _)
linesFrom(v, segs, i) ==
    IF i > Len(segs) THEN v
    ELSE LET e == segEnds(LinesBox, segs[i])
         IN  linesFrom(addSeg(v, e[1], e[2], e[3], e[4]), segs, i + 1)

\* genDigitLines ("stroke"): digit d as line segments
genDigitLines(d, v) == linesFrom(Clear(v), switchLines(d), 1)

RECURSIVE quadsFrom(_, _, _, _)
quadsFrom(v, segs, i, thickness) ==
    IF i > Len(segs) THEN v
    ELSE LET e == segEnds(FilledBox, segs[i])
         IN  quadsFrom(addQuad(v, e[1], e[2], e[3], e[4], thickness),
                       segs, i + 1, thickness)

\* genDigitFilled ("filled"): digit d as thick quads
genDigitFilled(d, thickness, v) == quadsFrom(Clear(v), switchFilled(d), 1, thickness)

\* the boxes <<x0, y0, x1, y1>> of genDigitMesh ("block") for digit d
boxesBlock(d) ==
    CASE d = 0 -> << <<-4500, 3500, 4500, 5500>>, <<-4500, -5500, 4500, -3500>>,
                     <<-4500, -5500, -2500, 5500>>, <<2500, -5500, 4500, 5500>> >>
      [] d = 1 -> << <<1000, -5500, 3000, 5500>> >>
      [] d = 2 -> << <<-4500, 3500, 4500, 5500>>, <<2500, 1500, 4500, 3500>>,
                     <<-4500, -500, 4500, 1500>>, <<-4500, -5500, -2500, -3500>>,
                     <<-4500, -5500, 4500, -3500>> >>
      [] d = 3 -> << <<-4500, 3500, 4500, 5500>>, <<2500, 1500, 4500, 3500>>,
                     <<-4500, -500, 4500, 1500>>, <<2500, -3500, 4500, -1500>>,
                     <<-4500, -5500, 4500, -3500>> >>
      [] d = 4 -> << <<-4500, 500, -2500, 5500>>, <<2500, 500, 4500, 5500>>,
                     <<-4500, -500, 4500, 1500>>, <<2500, -5500, 4500, -500>> >>
      [] d = 5 -> << <<-4500, 3500, 4500, 5500>>, <<-4500, 1500, -2500, 3500>>,
                     <<-4500, -500, 4500, 1500>>, <<2500, -3500, 4500, -1500>>,
                     <<-4500, -5500, 4500, -3500>> >>
      [] d = 6 -> << <<-4500, 3500, 4500, 5500>>, <<-4500, -500, -2500, 3500>>,
                     <<-4500, -500, 4500, 1500>>, <<2500, -3500, 4500, -1500>>,
                     <<-4500, -5500, 4500, -3500>>, <<-4500, -3500, -2500, -1500>> >>
      [] d = 7 -> << <<-4500, 3500, 4500, 5500>>, <<2500, -5500, 4500, 3500>> >>
      [] d = 8 -> << <<-4500, 3500, 4500, 5500>>, <<-4500, -500, 4500, 1500>>,
                     <<-4500, -5500, 4500, -3500>>, <<-4500, -5500, -2500, 5500>>,
                     <<2500, -5500, 4500, 5500>> >>
      [] d = 9 -> << <<-4500, 3500, 4500, 5500>>, <<-4500, 1500, -2500, 5500>>,
                     <<-4500, -500, 4500, 1500>>, <<2500, -5500, 4500, -1500>> >>
      [] OTHER -> <<>>

\* the boxes of genDigit ("noticks") for digit d
boxesNoticks(d) ==
    CASE d = 0 -> << <<-4500, 3500, 4500, 5500>>, <<-4500, -5500, 4500, -3500>>,
                     <<-4500, -5500, -2500, 5500>>, <<2500, -5500, 4500, 5500>> >>
      [] d = 1 -> << <<1500, -5500, 3500, 5500>> >>
      [] d = 2 -> << <<-4500, 3500, 4500, 5500>>, <<2500, 1500, 4500, 3500>>,
                     <<-4500, -500, 4500, 1500>>, <<-4500, -5500, -2500, -3500>>,
                     <<-4500, -5500, 4500, -3500>> >>
      [] d = 3 -> << <<-4500, 3500, 4500, 5500>>, <<2500, 1500, 4500, 3500>>,
                     <<-4500, -500, 4500, 1500>>, <<2500, -3500, 4500, -1500>>,
                     <<-4500, -5500, 4500, -3500>> >>
      [] d = 4 -> << <<-4500, 500, -2500, 5500>>, <<2500, 500, 4500, 5500>>,
                     <<-4500, -500, 4500, 1500>>, <<2500, -5500, 4500, -500>> >>
      [] d = 5 -> << <<-4500, 3500, 4500, 5500>>, <<-4500, 1500, -2500, 3500>>,
                     <<-4500, -500, 4500, 1500>>, <<2500, -3500, 4500, -1500>>,
                     <<-4500, -5500, 4500, -3500>> >>
      [] d = 6 -> << <<-4500, 3500, 4500, 5500>>, <<-4500, -500, -2500, 3500>>,
                     <<-4500, -500, 4500, 1500>>, <<2500, -3500, 4500, -1500>>,
                     <<-4500, -5500, 4500, -3500>> >>
      [] d = 7 -> << <<-4500, 3500, 4500, 5500>>, <<2500, -5500, 4500, 3500>> >>
      [] d = 8 -> << <<-4500, 3500, 4500, 5500>>, <<-4500, -500, 4500, 1500>>,
                     <<-4500, -5500, 4500, -3500>>, <<-4500, -5500, -2500, 5500>>,
                     <<2500, -5500, 4500, 5500>> >>
      [] d = 9 -> << <<-4500, 3500, 4500, 5500>>, <<-4500, 1500, -2500, 5500>>,
                     <<-4500, -500, 4500, 1500>>, <<2500, -5500, 4500, -1500>> >>
      [] OTHER -> <<>>

RECURSIVE boxesFrom(_, _, _)
boxesFrom(v, boxes, i) ==
    IF i > Len(boxes) THEN v
    ELSE boxesFrom(addBox(v, boxes[i][1], boxes[i][2], boxes[i][3], boxes[i][4]),
                   boxes, i + 1)

\* genDigitMesh ("block")
genDigitMesh(v, d) == boxesFrom(Clear(v), boxesBlock(d), 1)
\* genDigit ("noticks")
genDigit(v, d) == boxesFrom(Clear(v), boxesNoticks(d), 1)

\* "for(i=0; i<d.size(); i+=2) verts.push_back(d[i]+off), verts.push_back(d[i+1])"
shiftX(d, off) == [k \in 1..Len(d) |-> IF k % 2 = 1 THEN d[k] + off ELSE d[k]]

\* one iteration of buildNumerals ("stroke"): the vertices of numeral n
numeralLines(n) ==
    IF n < 10 THEN <<>> \o genDigitLines(n, <<>>)
    ELSE LET tens == n \div 10
             ones == n % 10
             d1   == genDigitLines(tens, <<>>)
             d2   == genDigitLines(ones, <<>>)
             gap  == 2000
         IN  shiftX(d1, -6000 - gap) \o shiftX(d2, 6000 + gap)

\* one iteration of buildNumerals ("filled")
numeralFilled(n) ==
    LET t == 2200
    IN  IF n < 10 THEN <<>> \o genDigitFilled(n, t, <<>>)
        ELSE LET tens   == n \div 10
                 ones   == n % 10
                 d1     == genDigitFilled(tens, t, <<>>)
                 d2     == genDigitFilled(ones, t, <<>>)
                 gap    == 2000
                 offset == 7000 + gap
             IN  shiftX(d1, -offset) \o shiftX(d2, offset)

\* how far buildNumerals moves the two digits of 10, 11, 12 off the centre:
\* 0.6 + gap ("stroke"), 0.7 + gap ("filled"), dx + gap ("block")
digitOffset(v) ==
    CASE v = "stroke" -> 6000 + 2000
      [] v = "filled" -> 7000 + 2000
      [] OTHER        -> 7500 + 1000

\* the inter-digit gap of buildNumerals: "gap = 0.20f" ("stroke", "filled"),
\* "gap = 0.10f" ("block")
digitGap(v) == IF v = "block" THEN 1000 ELSE 2000

\* half the width of a digit glyph: (X1 - X0)/2 of the segment positions, the
\* boxes of genDigitMesh reach from -0.45 to 0.45
glyphHalfWidth(v) ==
    CASE v = "stroke" -> (LinesBox.X1 - LinesBox.X0) \div 2
      [] v = "filled" -> (FilledBox.X1 - FilledBox.X0) \div 2
      [] OTHER        -> 4500

\* the glyph of digit d as the digit generator of a program leaves it
digitGlyph(v, d) ==
    CASE v = "stroke" -> genDigitLines(d, <<>>)
      [] v = "filled" -> genDigitFilled(d, 2200, <<>>)
      [] v = "block"  -> genDigitMesh(<<>>, d)
      [] OTHER        -> genDigit(<<>>, d)

\* (C11 mutant) the ones glyph moved by the centre offset only
numeralBlockLopsided(n) ==
    IF n < 10 THEN <<>> \o genDigitMesh(<<>>, n)
    ELSE shiftX(genDigitMesh(<<>>, n \div 10), -7500 - 1000)
            \o shiftX(genDigitMesh(<<>>, n % 10), 7500)
\* one iteration of buildNumerals ("block")
numeralBlock(n) ==
    IF n < 10 THEN <<>> \o genDigitMesh(<<>>, n)
    ELSE LET t    == n \div 10
             o    == n % 10
             tens == genDigitMesh(<<>>, t)
             ones == genDigitMesh(<<>>, o)
             dx   == 7500
             gap  == 1000
         IN  shiftX(tens, -dx - gap) \o shiftX(ones, dx + gap)

(***************************************************************************)
(* The statements of main, as data.  A statement is a record               *)
(*   op    what it does                                                    *)
(*   key   the mesh variable, generator or angle variable it names         *)
(*   role  for a draw: what the mesh stands for on the clock face          *)
(*   x, y, z, w   its numeric arguments                                    *)
(*   mode  for makeMesh: the primitive topology                            *)
(***************************************************************************)
Stmt(op, key, role, x, y, z, w, mode) ==
    [op |-> op, key |-> key, role |-> role, x |-> x, y |-> y, z |-> z, w |-> w,
     mode |-> mode]

Gen0(name)            == Stmt("gen", <<name, 0>>, "", 0, 0, 0, 0, "")
Gen1(name, a)         == Stmt("gen", <<name, 0>>, "", a, 0, 0, 0, "")
Gen3(name, a, b, c)   == Stmt("gen", <<name, 0>>, "", a, b, c, 0, "")
Gen4(name, a, b, c, d) == Stmt("gen", <<name, 0>>, "", a, b, c, d, "")
MakeMeshStmt(name, mode) == Stmt("makeMesh", <<name, 0>>, "", 0, 0, 0, 0, mode)
NumeralStmt(name, n)  == Stmt("numeral", <<name, n>>, "", n, 0, 0, 0, "")
UseProgramStmt        == Stmt("useProgram", <<"", 0>>, "", 0, 0, 0, 0, "")
AngleStmt(src)        == Stmt("angle", <<src, 0>>, "", 0, 0, 0, 0, "")
TransStmt(x, y)       == Stmt("trans", <<"", 0>>, "", x, y, 0, 0, "")
ScaleStmt(x, y)       == Stmt("scale", <<"", 0>>, "", x, y, 0, 0, "")
ColorStmt(r, g, b)    == Stmt("color", <<"", 0>>, "", r, g, b, 0, "")
LineWidthStmt(wd)     == Stmt("lineWidth", <<"", 0>>, "", wd, 0, 0, 0, "")
DrawStmt(name, role)  == Stmt("draw", <<name, 0>>, role, 0, 0, 0, 0, "")
\* (C8 mutant) the numerals drawn 12 down to 1
DrawNumeralStmtDescending(name, n) ==
    Stmt("draw", <<name, 13 - n>>, "numeral", 13 - n, 0, 0, 0, "")
DrawNumeralStmt(name, n) == Stmt("draw", <<name, n>>, "numeral", n, 0, 0, 0, "")
DestroyStmt(name, n)  == Stmt("destroy", <<name, n>>, "", 0, 0, 0, 0, "")

\* the name of the numeral array of a program ("" when it has none)
NumeralArray(v) ==
    CASE v \in {"stroke", "filled", "block"} -> "numerals"
      [] v = "noticks" -> "digits"
      [] OTHER -> ""

HasNumerals(v) == NumeralArray(v) # ""

\* the mesh variables of each main
MeshNames(v) ==
    CASE v \in {"stroke", "filled"} ->
            {"bezel", "dial", "chap", "minTicks", "hrTicks", "hourHand", "minHand",
             "secHand", "cap"}
      [] v = "plain" -> {"circle", "minT", "hrT", "hand", "dot"}
      [] v = "spade" ->
            {"bezel", "dial", "innerRing", "minTicks", "hrTicks", "hourHand",
             "minHand", "secHand", "cap"}
      [] v = "block" ->
            {"bezel", "face", "innerRing", "minuteTicks", "hourTicks", "hourHand",
             "minuteHand", "secondHand"}
      [] OTHER -> {"bezel", "dial", "chap", "mh", "mm", "ms"}

\* every mesh slot of a program: its mesh variables and, where it has
\* numerals, the 13 slots 0..12 of the numeral array
MeshKeys(v) ==
    {<<nm, 0>> : nm \in MeshNames(v)} \cup
    (IF HasNumerals(v) THEN {<<NumeralArray(v), n>> : n \in 0..12} ELSE {})

\* a default-constructed Mesh
NoMesh == [vao |-> 0, vbo |-> 0, count |-> 0, mode |-> "TRIANGLES", data |-> <<>>]

(***************************************************************************)
(* Scene Assembler: the statements between makeProgram and the frame loop. *)
(***************************************************************************)
BuildStmts(v) ==
    CASE v = "stroke" ->
            << Gen3("genRing", 256, 9800, 8600), MakeMeshStmt("bezel", "TRIANGLE_STRIP"),
               Gen1("genDiscFan", 128),          MakeMeshStmt("dial", "TRIANGLE_FAN"),
               Gen3("genRing", 256, 8400, 8200), MakeMeshStmt("chap", "TRIANGLE_STRIP"),
               Gen3("genTicks", 60, 8200, 8800), MakeMeshStmt("minTicks", "LINES"),
               Gen3("genTicks", 12, 7800, 9000), MakeMeshStmt("hrTicks", "LINES"),
               Gen0("genSpadeHour"),             MakeMeshStmt("hourHand", "TRIANGLES"),
               Gen0("genPointerMinute"),         MakeMeshStmt("minHand", "TRIANGLES"),
               Gen0("genSecondThin"),            MakeMeshStmt("secHand", "TRIANGLES"),
               Gen1("genDiscFan", 40),           MakeMeshStmt("cap", "TRIANGLE_FAN") >>
            \o [n \in 1..12 |-> NumeralStmt("numerals", n)]
      [] v = "filled" ->
            << Gen3("genRing", 256, 9800, 8600), MakeMeshStmt("bezel", "TRIANGLE_STRIP"),
               Gen1("genDiscFan", 128),          MakeMeshStmt("dial", "TRIANGLE_FAN"),
               Gen3("genRing", 256, 8400, 8200), MakeMeshStmt("chap", "TRIANGLE_STRIP"),
               Gen3("genTicks", 60, 8200, 8800), MakeMeshStmt("minTicks", "LINES"),
               Gen3("genTicks", 12, 7800, 9000), MakeMeshStmt("hrTicks", "LINES"),
               Gen0("genHourHandFilled"),        MakeMeshStmt("hourHand", "TRIANGLES"),
               Gen0("genMinuteHandFilled"),      MakeMeshStmt("minHand", "TRIANGLES"),
               Gen0("genSecondHandFilled"),      MakeMeshStmt("secHand", "TRIANGLES"),
               Gen1("genDiscFan", 40),           MakeMeshStmt("cap", "TRIANGLE_FAN") >>
            \o [n \in 1..12 |-> NumeralStmt("numerals", n)]
      [] v = "plain" ->
            << Gen1("genCircle", 256),           MakeMeshStmt("circle", "LINE_LOOP"),
               Gen3("genTicks", 60, 8800, 9500), MakeMeshStmt("minT", "LINES"),
               Gen3("genTicks", 12, 8000, 9500), MakeMeshStmt("hrT", "LINES"),
               Gen0("genUnitHand"),              MakeMeshStmt("hand", "TRIANGLES"),
               Gen1("genDiscFan", 40),           MakeMeshStmt("dot", "TRIANGLE_FAN") >>
      [] v = "spade" ->
            << Gen3("genRing", 256, 9800, 8600), MakeMeshStmt("bezel", "TRIANGLE_STRIP"),
               Gen1("genDiscFan", 128),          MakeMeshStmt("dial", "TRIANGLE_FAN"),
               Gen3("genRing", 256, 8400, 8200), MakeMeshStmt("innerRing", "TRIANGLE_STRIP"),
               Gen3("genTicks", 60, 8200, 8800), MakeMeshStmt("minTicks", "LINES"),
               Gen3("genTicks", 12, 7800, 9000), MakeMeshStmt("hrTicks", "LINES"),
               Gen0("genSpadeHour"),             MakeMeshStmt("hourHand", "TRIANGLES"),
               Gen0("genPointerMinute"),         MakeMeshStmt("minHand", "TRIANGLES"),
               Gen0("genSecondThin"),            MakeMeshStmt("secHand", "TRIANGLES"),
               Gen1("genDiscFan", 40),           MakeMeshStmt("cap", "TRIANGLE_FAN") >>
      [] v = "block" ->
            << UseProgramStmt,
               Gen3("genRingTris", 256, 9800, 8600), MakeMeshStmt("bezel", "TRIANGLES"),
               Gen3("genDisc", 128, 10000, 0),       MakeMeshStmt("face", "TRIANGLES"),
               Gen3("genRingTris", 256, 8400, 8200), MakeMeshStmt("innerRing", "TRIANGLES"),
               Gen4("genTicksQuads", 60, 8200, 8800, 100),
                                                     MakeMeshStmt("minuteTicks", "TRIANGLES"),
               Gen4("genTicksQuads", 12, 7800, 9000, 200),
                                                     MakeMeshStmt("hourTicks", "TRIANGLES"),
               Gen0("genHourHandBox"),               MakeMeshStmt("hourHand", "TRIANGLES"),
               Gen0("genMinuteHandBox"),             MakeMeshStmt("minuteHand", "TRIANGLES"),
               Gen0("genSecondHandBlock"),           MakeMeshStmt("secondHand", "TRIANGLES") >>
            \o [n \in 1..12 |-> NumeralStmt("numerals", n)]
      [] OTHER ->
            << UseProgramStmt,
               Gen3("genRingTris", 256, 9800, 8600), MakeMeshStmt("bezel", "TRIANGLES"),
               Gen3("genDisc", 128, 10000, 0),       MakeMeshStmt("dial", "TRIANGLES"),
               Gen3("genRingTris", 256, 8400, 8200), MakeMeshStmt("chap", "TRIANGLES"),
               Gen0("genHourHandBox"),               MakeMeshStmt("mh", "TRIANGLES"),
               Gen0("genMinuteHandBox"),             MakeMeshStmt("mm", "TRIANGLES"),
               Gen0("genSecondHandNoticks"),         MakeMeshStmt("ms", "TRIANGLES") >>
            \o [n \in 1..12 |-> NumeralStmt("digits", n)]

\* the generator a "gen" statement calls, applied to the buffer v
RunGen(st, v) ==
    LET g == st.key[1]
    IN  CASE g = "genRing"              -> genRing(st.x, st.y, st.z, v)
          [] g = "genRingTris"          -> genRingTris(st.x, st.y, st.z, v)
          [] g = "genDiscFan"           -> genDiscFan(st.x, v)
          [] g = "genDisc"              -> genDisc(v, st.x, st.y)
          [] g = "genCircle"            -> genCircle(st.x, v)
          [] g = "genTicks"             -> genTicks(st.x, st.y, st.z, v)
          [] g = "genTicksQuads"        -> genTicksQuads(v, st.x, st.y, st.z, st.w)
          [] g = "genSpadeHour"         -> genSpadeHour(v)
          [] g = "genPointerMinute"     -> genPointerMinute(v)
          [] g = "genSecondThin"        -> genSecondThin(v)
          [] g = "genUnitHand"          -> genUnitHand(v)
          [] g = "genHourHandFilled"    -> genHourHandFilled(v)
          [] g = "genMinuteHandFilled"  -> genMinuteHandFilled(v)
          [] g = "genSecondHandFilled"  -> genSecondHandFilled(v)
          [] g = "genHourHandBox"       -> genHourHandBox(v)
          [] g = "genMinuteHandBox"     -> genMinuteHandBox(v)
          [] g = "genSecondHandBlock"   -> genSecondHandBlock(v)
          [] OTHER                      -> genSecondHandNoticks(v)

\* the argument of the v.reserve(...) a "gen" statement's generator opens with
\* (0 for the generators that reserve nothing or a fixed amount)
ReserveArg(st) ==
    LET g == st.key[1]
    IN  CASE g = "genRing"    -> (st.x + 1) * 4
          [] g = "genDiscFan" -> (st.x + 2) * 2
          [] g = "genTicks"   -> st.x * 4
          [] g = "genCircle"  -> st.x * 2
          [] OTHER            -> 0

\* v.reserve(n) with a negative int n: n becomes a size_type beyond
\* max_size() and reserve throws std::length_error
ReserveThrows(st) == ReserveArg(st) < 0

(***************************************************************************)
(* Frame Renderer: the statements of one pass of the loop body, after      *)
(* glClear and up to glfwSwapBuffers.                                      *)
(***************************************************************************)
\* rNum and sNum of each main
rNum(v) == IF v = "stroke" THEN 6600 ELSE 7300
sNum(v) == IF v = "stroke" THEN 1300 ELSE 1000

\* "stroke": t = float(n) * (TAU/12)
numeralT(n) == Frac(n, 12)
\* "filled": placeAngle(n) = float(-TAU*(idx/12.0f) + TAU*0.25f), idx = n % 12
placeAngle(n) == LET idx == n % 12 IN -Frac(idx, 12) + QuarterTurn
\* "block", "noticks": numeralAngle(n), the same expression
numeralAngle(n) == LET idx == n % 12 IN -Frac(idx, 12) + QuarterTurn

\* the angle at which the numeral loop of program v places numeral n
NumeralPlaceAngle(v, n) ==
    CASE v = "stroke" -> numeralT(n)
      [] v = "filled" -> placeAngle(n)
      [] OTHER        -> numeralAngle(n)

\* cx = cos(ang)*rNum, cy = sin(ang)*rNum
NumeralPlace(v, n) ==
    LET a == NumeralPlaceAngle(v, n)
    IN  <<FMul(Cos(a), rNum(v)), FMul(Sin(a), rNum(v))>>

\* the body of the numeral loop of each main, for numeral n
NumeralBodyStroke(n) ==
    << AngleStmt("zero"),
       ScaleStmt(sNum("stroke"), sNum("stroke")),
       TransStmt(NumeralPlace("stroke", n)[1], NumeralPlace("stroke", n)[2]),
       ColorStmt(0, 0, 0),
       DrawNumeralStmt("numerals", n) >>
NumeralBodyFilled(n) ==
    << AngleStmt("zero"),
       ScaleStmt(sNum("filled"), sNum("filled")),
       TransStmt(NumeralPlace("filled", n)[1], NumeralPlace("filled", n)[2]),
       DrawNumeralStmt("numerals", n) >>
\* (C7 mutant) the numerals turned with the hour hand
NumeralBodyBlockTurned(n) ==
    << AngleStmt("aH"),
       ScaleStmt(sNum("block"), sNum("block")),
       TransStmt(NumeralPlace("block", n)[1], NumeralPlace("block", n)[2]),
       DrawNumeralStmt("numerals", n) >>
NumeralBodyBlock(n) ==
    << AngleStmt("zero"),
       ScaleStmt(sNum("block"), sNum("block")),
       TransStmt(NumeralPlace("block", n)[1], NumeralPlace("block", n)[2]),
       DrawNumeralStmt("numerals", n) >>
NumeralBodyNoticks(n) ==
    << AngleStmt("zero"),
       ScaleStmt(sNum("noticks"), sNum("noticks")),
       TransStmt(NumeralPlace("noticks", n)[1], NumeralPlace("noticks", n)[2]),
       DrawNumeralStmt("digits", n) >>

\* the body of the numeral loop of each main
NumeralBody(v, n) ==
    CASE v = "stroke" -> NumeralBodyStroke(n)
      [] v = "filled" -> NumeralBodyFilled(n)
      [] v = "block" -> NumeralBodyBlock(n)
      [] OTHER -> NumeralBodyNoticks(n)

\* the statements "for(n=1; n<=12; n++) ..." with k statements per iteration
LoopStmts(v, k) ==
    [i \in 1..(12 * k) |-> NumeralBody(v, ((i - 1) \div k) + 1)[((i - 1) % k) + 1]]

FrameStroke ==
    << UseProgramStmt,
       AngleStmt("zero"), TransStmt(0, 0),
       ColorStmt(4200, 2200, 1200), ScaleStmt(10000, 10000), DrawStmt("bezel", "bezel"),
       ColorStmt(10000, 10000, 10000), ScaleStmt(8600, 8600), DrawStmt("dial", "dial"),
       ColorStmt(7500, 7500, 7500), ScaleStmt(10000, 10000), DrawStmt("chap", "chapter"),
       ColorStmt(0, 0, 0),
       LineWidthStmt(12000), DrawStmt("minTicks", "minuteTicks"),
       LineWidthStmt(22000), DrawStmt("hrTicks", "hourTicks"),
       LineWidthStmt(30000) >>
    \o LoopStmts("stroke", 5) \o
    << TransStmt(0, 0), ColorStmt(0, 0, 0),
       AngleStmt("aH"), ScaleStmt(600, 5500), DrawStmt("hourHand", "hourHand"),
       AngleStmt("aM"), ScaleStmt(400, 8800), DrawStmt("minHand", "minuteHand"),
       ColorStmt(8000, 7000, 3500),
       AngleStmt("aS"), ScaleStmt(200, 9200), DrawStmt("secHand", "secondHand"),
       ColorStmt(0, 0, 0),
       AngleStmt("zero"), ScaleStmt(350, 350), DrawStmt("cap", "cap") >>

FrameFilled ==
    << UseProgramStmt,
       AngleStmt("zero"), TransStmt(0, 0),
       ColorStmt(4200, 2200, 1200), ScaleStmt(10000, 10000), DrawStmt("bezel", "bezel"),
       ColorStmt(10000, 10000, 10000), ScaleStmt(8600, 8600), DrawStmt("dial", "dial"),
       ColorStmt(7500, 7500, 7500), ScaleStmt(10000, 10000), DrawStmt("chap", "chapter"),
       ColorStmt(0, 0, 0),
       LineWidthStmt(12000), DrawStmt("minTicks", "minuteTicks"),
       LineWidthStmt(20000), DrawStmt("hrTicks", "hourTicks"),
       ColorStmt(0, 0, 0) >>
    \o LoopStmts("filled", 4) \o
    << TransStmt(0, 0),
       ColorStmt(0, 0, 0),
       AngleStmt("aH"), ScaleStmt(10000, 10000), DrawStmt("hourHand", "hourHand"),
       AngleStmt("aM"), ScaleStmt(10000, 10000), DrawStmt("minHand", "minuteHand"),
       ColorStmt(8000, 7000, 3500),
       AngleStmt("aS"), ScaleStmt(10000, 10000), DrawStmt("secHand", "secondHand"),
       ColorStmt(0, 0, 0),
       AngleStmt("zero"), ScaleStmt(350, 350), DrawStmt("cap", "cap") >>

FramePlain ==
    << UseProgramStmt,
       TransStmt(0, 0), AngleStmt("zero"), ColorStmt(0, 0, 0),
       ScaleStmt(9000, 9000), DrawStmt("circle", "dialOutline"),
       ScaleStmt(10000, 10000),
       LineWidthStmt(10000), DrawStmt("minT", "minuteTicks"),
       LineWidthStmt(20000), DrawStmt("hrT", "hourTicks"),
       AngleStmt("aH"), ScaleStmt(600, 5500), DrawStmt("hand", "hourHand"),
       AngleStmt("aM"), ScaleStmt(400, 8000), DrawStmt("hand", "minuteHand"),
       AngleStmt("aS"), ScaleStmt(200, 8800), DrawStmt("hand", "secondHand"),
       AngleStmt("zero"), ScaleStmt(300, 300), DrawStmt("dot", "cap") >>

FrameSpade ==
    << UseProgramStmt,
       TransStmt(0, 0),
       AngleStmt("zero"),
       ColorStmt(4200, 2200, 1200), ScaleStmt(10000, 10000), DrawStmt("bezel", "bezel"),
       ColorStmt(10000, 10000, 10000), ScaleStmt(8600, 8600), DrawStmt("dial", "dial"),
       ColorStmt(7500, 7500, 7500), ScaleStmt(10000, 10000),
       DrawStmt("innerRing", "chapter"),
       ColorStmt(0, 0, 0),
       LineWidthStmt(12000), DrawStmt("minTicks", "minuteTicks"),
       LineWidthStmt(22000), DrawStmt("hrTicks", "hourTicks"),
       ColorStmt(0, 0, 0),
       AngleStmt("aH"), ScaleStmt(600, 5500), DrawStmt("hourHand", "hourHand"),
       AngleStmt("aM"), ScaleStmt(400, 8800), DrawStmt("minHand", "minuteHand"),
       ColorStmt(8000, 7000, 3500),
       AngleStmt("aS"), ScaleStmt(200, 9200), DrawStmt("secHand", "secondHand"),
       ColorStmt(0, 0, 0),
       AngleStmt("zero"), ScaleStmt(350, 350), DrawStmt("cap", "cap") >>

FrameBlock ==
    << UseProgramStmt,
       AngleStmt("zero"), TransStmt(0, 0),
       ColorStmt(4200, 2200, 1200), ScaleStmt(10000, 10000), DrawStmt("bezel", "bezel"),
       ColorStmt(10000, 10000, 10000), ScaleStmt(8600, 8600), DrawStmt("face", "dial"),
       ColorStmt(7500, 7500, 7500), ScaleStmt(10000, 10000),
       DrawStmt("innerRing", "chapter"),
       ColorStmt(0, 0, 0), ScaleStmt(10000, 10000),
       DrawStmt("minuteTicks", "minuteTicks"),
       DrawStmt("hourTicks", "hourTicks"),
       ColorStmt(0, 0, 0) >>
    \o LoopStmts("block", 4) \o
    << TransStmt(0, 0),
       ColorStmt(0, 0, 0),
       AngleStmt("aH"), ScaleStmt(10000, 10000), DrawStmt("hourHand", "hourHand"),
       AngleStmt("aM"), DrawStmt("minuteHand", "minuteHand"),
       ColorStmt(8000, 7000, 3500),
       AngleStmt("aS"), DrawStmt("secondHand", "secondHand") >>

FrameNoticks ==
    << AngleStmt("zero"), TransStmt(0, 0),
       ColorStmt(4200, 2200, 1200), ScaleStmt(10000, 10000), DrawStmt("bezel", "bezel"),
       ColorStmt(10000, 10000, 10000), ScaleStmt(8600, 8600), DrawStmt("dial", "dial"),
       ColorStmt(7500, 7500, 7500), ScaleStmt(10000, 10000), DrawStmt("chap", "chapter"),
       ColorStmt(0, 0, 0) >>
    \o LoopStmts("noticks", 4) \o
    << TransStmt(0, 0),
       ColorStmt(0, 0, 0),
       AngleStmt("aH"), ScaleStmt(10000, 10000), DrawStmt("mh", "hourHand"),
       AngleStmt("aM"), ScaleStmt(10000, 10000), DrawStmt("mm", "minuteHand"),
       ColorStmt(8000, 7000, 3500),
       AngleStmt("aS"), ScaleStmt(10000, 10000), DrawStmt("ms", "secondHand") >>

FrameStmts(v) ==
    CASE v = "stroke" -> FrameStroke
      [] v = "filled" -> FrameFilled
      [] v = "plain"  -> FramePlain
      [] v = "spade"  -> FrameSpade
      [] v = "block"  -> FrameBlock
      [] OTHER        -> FrameNoticks

(***************************************************************************)
(* Teardown: the statements after the loop.                                *)
(***************************************************************************)
\* (C15 mutant) the mesh named last is not destroyed
DestroyAllButLast(names) == [i \in 1..(Len(names) - 1) |-> DestroyStmt(names[i], 0)]
DestroyAll(names) == [i \in 1..Len(names) |-> DestroyStmt(names[i], 0)]
\* (C13 mutant) the loop also destroys slot 0
DestroyNumeralsFromZero(name) == [n \in 1..13 |-> DestroyStmt(name, n - 1)]
DestroyNumerals(name) == [n \in 1..12 |-> DestroyStmt(name, n)]
\* (C14 mutant) the window destroyed before the program is deleted
ReleaseStmtsWindowFirst ==
    << Stmt("destroyWindow", <<"", 0>>, "", 0, 0, 0, 0, ""),
       Stmt("deleteProgram", <<"", 0>>, "", 0, 0, 0, 0, ""),
       Stmt("terminate", <<"", 0>>, "", 0, 0, 0, 0, "") >>
ReleaseStmts ==
    << Stmt("deleteProgram", <<"", 0>>, "", 0, 0, 0, 0, ""),
       Stmt("destroyWindow", <<"", 0>>, "", 0, 0, 0, 0, ""),
       Stmt("terminate", <<"", 0>>, "", 0, 0, 0, 0, "") >>

TeardownStmts(v) ==
    (CASE v \in {"stroke", "filled"} ->
            DestroyNumerals("numerals") \o
            DestroyAll(<<"cap", "secHand", "minHand", "hourHand", "hrTicks",
                         "minTicks", "chap", "dial", "bezel">>)
       [] v = "plain" ->
            DestroyAll(<<"dot", "hand", "hrT", "minT", "circle">>)
       [] v = "spade" ->
            DestroyAll(<<"cap", "secHand", "minHand", "hourHand", "hrTicks",
                         "minTicks", "innerRing", "dial", "bezel">>)
       [] v = "block" ->
            DestroyNumerals("numerals") \o
            DestroyAll(<<"secondHand", "minuteHand", "hourHand", "hourTicks",
                         "minuteTicks", "innerRing", "face", "bezel">>)
       [] OTHER ->
            DestroyNumerals("digits") \o
            DestroyAll(<<"ms", "mm", "mh", "chap", "dial", "bezel">>))
    \o ReleaseStmts

(***************************************************************************)
(* The state machine of main.                                              *)
(***************************************************************************)
\* the local times the frame loop samples in the model: a few hours, the
\* full and the half hour, the first and the last second of a minute
SampleTimes == [hour : {0, 3, 6, 23}, min : {0, 30}, sec : {0, 59},
                frac : 0..(SubDen - 1)]

\* outcomes of makeProgram: both shaders compile and the program links, a
\* shader fails to compile (and the link fails with it), only the link fails
ShaderOutcomes == {"ok", "compileFail", "linkFail"}

NoProgram == [id |-> 0, linked |-> FALSE]

AfterPhase(phase) ==
    CASE phase = "build" -> "loopTest"
      [] phase = "frame" -> "swap"
      [] OTHER           -> "return"

\* code holds the statements of the current phase that are still to run
InStmts == pc \in {"build", "frame", "teardown"}
Cur == Head(code)
AtStmt(op) == InStmts /\ Cur.op = op

\* move to the statement after the current one
Advance ==
    /\ code' = Tail(code)
    /\ pc' = IF Len(code) > 1 THEN pc ELSE AfterPhase(pc)

glVars   == <<glfwInited, win, prog, progUsed, nextName, glLog>>
meshVars == <<tmp, meshes>>
timeVars == <<tm, aS, aM, aH>>
uniVars  == <<uAngle, uScale, uTrans, uColor, lineWidth>>
outVars  == <<exitCode, diag>>

Init ==
    /\ variant \in Variants
    /\ pc = "glfwInit"
    /\ code = <<>>
    /\ glfwInited = FALSE
    /\ win = 0
    /\ prog = NoProgram
    /\ progUsed = 0
    /\ nextName = 1
    /\ tmp = <<>>
    /\ meshes = [k \in MeshKeys(variant) |-> NoMesh]
    /\ closeReq = FALSE
    /\ tm = NoTime
    /\ aS = 0 /\ aM = 0 /\ aH = 0
    /\ uAngle = 0
    /\ uScale = <<0, 0>>
    /\ uTrans = <<0, 0>>
    /\ uColor = <<0, 0, 0>>
    /\ lineWidth = Unit
    /\ drawLog = <<>>
    /\ glLog = <<>>
    /\ exitCode = -1
    /\ diag = <<>>

\* if(!glfwInit()){ fprintf(stderr, "GLFW init failed\n"); return 1; }
GlfwInit ==
    /\ pc = "glfwInit"
    /\ \E ok \in BOOLEAN :
        IF ok
        THEN /\ glfwInited' = TRUE
             /\ pc' = "createWindow"
             /\ UNCHANGED outVars
        ELSE /\ diag' = Append(diag, "GLFW init failed")
             /\ exitCode' = 1
             /\ pc' = "done"
             /\ UNCHANGED glfwInited
    /\ UNCHANGED <<variant, code, win, prog, progUsed, nextName, glLog, meshVars,
                   closeReq, timeVars, uniVars, drawLog>>

\* win = glfwCreateWindow(...); if(!win){ glfwTerminate(); return 1; }
CreateWindow ==
    /\ pc = "createWindow"
    /\ \E ok \in BOOLEAN :
        IF ok
        THEN /\ win' = 1
             /\ pc' = "makeProgram"
             /\ UNCHANGED <<glfwInited, glLog, exitCode>>
        ELSE /\ glfwInited' = FALSE
             /\ glLog' = Append(glLog, <<"glfwTerminate", 0>>)
             /\ exitCode' = 1
             /\ pc' = "done"
             /\ UNCHANGED win
    /\ UNCHANGED <<variant, code, prog, progUsed, nextName, meshVars, closeReq,
                   timeVars, uniVars, drawLog, diag>>

\* (C17 mutant) nothing printed
ShaderDiagSilent(outcome) == <<>>
\* what makeShader and makeProgram print for an outcome
ShaderDiag(outcome) ==
    CASE outcome = "ok"          -> <<>>
      [] outcome = "compileFail" -> <<"[Shader]", "[Link]">>
      [] OTHER                   -> <<"[Link]">>

\* prog = makeProgram(kVS, kFS): the handle is returned whatever the outcome
makeProgram ==
    /\ pc = "makeProgram"
    /\ \E outcome \in ShaderOutcomes :
        /\ prog' = [id |-> 1, linked |-> (outcome = "ok")]
        /\ diag' = diag \o ShaderDiag(outcome)
    /\ pc' = "build"
    /\ code' = BuildStmts(variant)
    /\ UNCHANGED <<variant, glfwInited, win, progUsed, nextName, glLog, meshVars,
                   closeReq, timeVars, uniVars, drawLog, exitCode>>

\* genX(..., tmp): a generator fills the shared buffer
Gen ==
    /\ AtStmt("gen")
    /\ ~ReserveThrows(Cur)
    /\ tmp' = RunGen(Cur, tmp)
    /\ Advance
    /\ UNCHANGED <<variant, glVars, meshes, closeReq, timeVars, uniVars, drawLog,
                   outVars>>

\* a generator whose v.reserve throws: the buffer was cleared, nothing catches
\* the exception and the process is aborted
GenThrows ==
    /\ AtStmt("gen")
    /\ ReserveThrows(Cur)
    /\ tmp' = <<>>
    /\ pc' = "done"
    /\ code' = <<>>
    /\ exitCode' = 134
    /\ UNCHANGED <<variant, glVars, meshes, closeReq, timeVars, uniVars, drawLog,
                   diag>>

\* (C26 mutant) a mesh that counts floats where it should count points
makeMeshCountingFloats(v, mode) ==
    [vao |-> nextName, vbo |-> nextName, count |-> Len(v), mode |-> mode,
     data |-> v]

\* makeMesh(v, mode) / Mesh::init(v): count = v.size()/2, fresh vao and vbo,
\* the buffer uploaded
makeMesh(v, mode) ==
    [vao |-> nextName, vbo |-> nextName, count |-> NPoints(v), mode |-> mode,
     data |-> v]

MakeMesh ==
    /\ AtStmt("makeMesh")
    /\ meshes' = [meshes EXCEPT ![Cur.key] = makeMesh(tmp, Cur.mode)]
    /\ nextName' = nextName + 1
    /\ Advance
    /\ UNCHANGED <<variant, glfwInited, win, prog, progUsed, glLog, tmp, closeReq,
                   timeVars, uniVars, drawLog, outVars>>

\* the topology the numeral meshes of a program are made with
NumeralMode(v) == IF v = "stroke" THEN "LINES" ELSE "TRIANGLES"

\* one iteration of buildNumerals (of the digits loop in "noticks", which
\* generates into the shared buffer: genDigit(tmp, n%10); digits[n].init(tmp))
BuildNumeral ==
    /\ AtStmt("numeral")
    /\ LET n     == Cur.x
           verts == CASE variant = "stroke" -> numeralLines(n)
                      [] variant = "filled" -> numeralFilled(n)
                      [] variant = "block"  -> numeralBlock(n)
                      [] OTHER              -> genDigit(tmp, n % 10)
       IN  /\ meshes' = [meshes EXCEPT ![Cur.key] = makeMesh(verts, NumeralMode(variant))]
           /\ tmp' = IF variant = "noticks" THEN verts ELSE tmp
    /\ nextName' = nextName + 1
    /\ Advance
    /\ UNCHANGED <<variant, glfwInited, win, prog, progUsed, glLog, closeReq,
                   timeVars, uniVars, drawLog, outVars>>

\* glUseProgram(prog): an unlinked program cannot be made current
UseProgram ==
    /\ AtStmt("useProgram")
    /\ progUsed' = IF prog.linked THEN prog.id ELSE progUsed
    /\ Advance
    /\ UNCHANGED <<variant, glfwInited, win, prog, nextName, glLog, meshVars,
                   closeReq, timeVars, uniVars, drawLog, outVars>>

\* (C18 mutant) a loop that never tests the close request
LoopTestForever ==
    /\ pc = "loopTest"
    /\ pc' = "poll"
    /\ UNCHANGED <<variant, code, glVars, meshVars, closeReq, timeVars, uniVars,
                   drawLog, outVars>>
\* while(!glfwWindowShouldClose(win))
LoopTest ==
    /\ pc = "loopTest"
    /\ pc' = IF closeReq THEN "teardown" ELSE "poll"
    /\ code' = IF closeReq THEN TeardownStmts(variant) ELSE code
    /\ UNCHANGED <<variant, glVars, meshVars, closeReq, timeVars, uniVars, drawLog,
                   outVars>>

\* glfwPollEvents(): a pending close event raises the close flag
PollEvents ==
    /\ pc = "poll"
    /\ closeReq' \in {closeReq, TRUE}
    /\ pc' = "time"
    /\ UNCHANGED <<variant, code, glVars, meshVars, timeVars, uniVars, drawLog, outVars>>

\* tnow = nowSeconds(); tt = (time_t)tnow; lt = *localtime(&tt)
nowSeconds ==
    /\ pc = "time"
    /\ tm' \in SampleTimes
    /\ pc' = "angles"
    /\ UNCHANGED <<variant, code, glVars, meshVars, closeReq, aS, aM, aH, uniVars,
                   drawLog, outVars>>

\* (C19 mutant) angles that add to what the frame before left in the uniform
ComputeAnglesCarried ==
    /\ pc = "angles"
    /\ aS' = uAngle + secondAngle(variant, tm)
    /\ aM' = uAngle + minuteAngle(variant, tm)
    /\ aH' = uAngle + hourAngle(variant, tm)
    /\ pc' = "clear"
    /\ UNCHANGED <<variant, code, glVars, meshVars, closeReq, tm, uniVars, drawLog,
                   outVars>>
\* s, m, h and aS = toA(s/60), aM = toA(m/60), aH = toA(h/12)
ComputeAngles ==
    /\ pc = "angles"
    /\ aS' = secondAngle(variant, tm)
    /\ aM' = minuteAngle(variant, tm)
    /\ aH' = hourAngle(variant, tm)
    /\ pc' = "clear"
    /\ UNCHANGED <<variant, code, glVars, meshVars, closeReq, tm, uniVars, drawLog,
                   outVars>>

\* glViewport(0,0,W,H); glClear(GL_COLOR_BUFFER_BIT): the back buffer is
\* empty (it already is after a swap: drawLog is the content of the back
\* buffer, the draw calls of the frame under construction)
Clear_ ==
    /\ pc = "clear"
    /\ drawLog' = <<>>
    /\ pc' = "frame"
    /\ code' = FrameStmts(variant)
    /\ UNCHANGED <<variant, glVars, meshVars, closeReq, timeVars, uniVars, outVars>>

\* (C20 mutant) uniform calls that never take effect
UniformLost(new, old) == old
\* a glUniform* call takes effect on the program in use, if there is one
Uniform(new, old) == IF progUsed # 0 THEN new ELSE old

\* the value an angle statement passes
AngleArg(src) ==
    CASE src = "aH" -> aH
      [] src = "aM" -> aM
      [] src = "aS" -> aS
      [] OTHER      -> 0

\* glUniform1f(uAngle, a)
SetAngle ==
    /\ AtStmt("angle")
    /\ uAngle' = Uniform(AngleArg(Cur.key[1]), uAngle)
    /\ Advance
    /\ UNCHANGED <<variant, glVars, meshVars, closeReq, timeVars, uScale, uTrans,
                   uColor, lineWidth, drawLog, outVars>>

\* glUniform2f(uScale, sx, sy)
SetScale ==
    /\ AtStmt("scale")
    /\ uScale' = Uniform(<<Cur.x, Cur.y>>, uScale)
    /\ Advance
    /\ UNCHANGED <<variant, glVars, meshVars, closeReq, timeVars, uAngle, uTrans,
                   uColor, lineWidth, drawLog, outVars>>

\* glUniform2f(uTrans, tx, ty)
SetTrans ==
    /\ AtStmt("trans")
    /\ uTrans' = Uniform(<<Cur.x, Cur.y>>, uTrans)
    /\ Advance
    /\ UNCHANGED <<variant, glVars, meshVars, closeReq, timeVars, uAngle, uScale,
                   uColor, lineWidth, drawLog, outVars>>

\* glUniform3f(uColor, r, g, b)
SetColor ==
    /\ AtStmt("color")
    /\ uColor' = Uniform(<<Cur.x, Cur.y, Cur.z>>, uColor)
    /\ Advance
    /\ UNCHANGED <<variant, glVars, meshVars, closeReq, timeVars, uAngle, uScale,
                   uTrans, lineWidth, drawLog, outVars>>

\* glLineWidth(w)
SetLineWidth ==
    /\ AtStmt("lineWidth")
    /\ lineWidth' = Cur.x
    /\ Advance
    /\ UNCHANGED <<variant, glVars, meshVars, closeReq, timeVars, uAngle, uScale,
                   uTrans, uColor, drawLog, outVars>>

\* Mesh::draw(): glBindVertexArray(vao); glDrawArrays(mode, 0, count), under
\* the uniforms in effect
DrawCall(st) ==
    [role |-> st.role, key |-> st.key, vao |-> meshes[st.key].vao,
     count |-> meshes[st.key].count, mode |-> meshes[st.key].mode,
     angle |-> uAngle, scale |-> uScale, trans |-> uTrans, color |-> uColor,
     lineWidth |-> lineWidth, prog |-> progUsed]

\* a draw call that streams the vertices again and recounts them before drawing
DrawReuploading ==
    /\ AtStmt("draw")
    /\ drawLog' = Append(drawLog, DrawCall(Cur))
    /\ meshes' = [meshes EXCEPT ![Cur.key].vbo = nextName]
    /\ nextName' = nextName + 1
    /\ Advance
    /\ UNCHANGED <<variant, glfwInited, win, prog, progUsed, glLog, tmp,
                   closeReq, timeVars, uniVars, outVars>>

Draw ==
    /\ AtStmt("draw")
    /\ drawLog' = Append(drawLog, DrawCall(Cur))
    /\ Advance
    /\ UNCHANGED <<variant, glVars, meshVars, closeReq, timeVars, uniVars, outVars>>

\* glfwSwapBuffers(win): the back buffer goes to the screen and a fresh one
\* takes its place; the locals of the loop body go out of scope
SwapBuffers ==
    /\ pc = "swap"
    /\ pc' = "loopTest"
    /\ drawLog' = <<>>
    /\ tm' = NoTime
    /\ aS' = 0 /\ aM' = 0 /\ aH' = 0
    /\ UNCHANGED <<variant, code, glVars, meshVars, closeReq, uniVars, outVars>>

\* Mesh::destroy(): if(vbo) glDeleteBuffers; if(vao) glDeleteVertexArrays;
\* vao = vbo = 0
Destroy ==
    /\ AtStmt("destroy")
    /\ LET m == meshes[Cur.key]
       IN  /\ glLog' = glLog
                \o (IF m.vbo # 0 THEN << <<"glDeleteBuffers", m.vbo>> >> ELSE <<>>)
                \o (IF m.vao # 0 THEN << <<"glDeleteVertexArrays", m.vao>> >> ELSE <<>>)
           /\ meshes' = [meshes EXCEPT ![Cur.key] =
                            [m EXCEPT !.vao = 0, !.vbo = 0,
                                      !.data = IF m.vbo # 0 THEN <<>> ELSE m.data]]
    /\ Advance
    /\ UNCHANGED <<variant, glfwInited, win, prog, progUsed, nextName, tmp, closeReq,
                   timeVars, uniVars, drawLog, outVars>>

\* glDeleteProgram(prog)
DeleteProgram ==
    /\ AtStmt("deleteProgram")
    /\ glLog' = Append(glLog, <<"glDeleteProgram", prog.id>>)
    /\ prog' = NoProgram
    /\ progUsed' = 0
    /\ Advance
    /\ UNCHANGED <<variant, glfwInited, win, nextName, meshVars, closeReq, timeVars,
                   uniVars, drawLog, outVars>>

\* glfwDestroyWindow(win)
DestroyWindow ==
    /\ AtStmt("destroyWindow")
    /\ glLog' = Append(glLog, <<"glfwDestroyWindow", win>>)
    /\ win' = 0
    /\ Advance
    /\ UNCHANGED <<variant, glfwInited, prog, progUsed, nextName, meshVars, closeReq,
                   timeVars, uniVars, drawLog, outVars>>

\* glfwTerminate()
Terminate ==
    /\ AtStmt("terminate")
    /\ glLog' = Append(glLog, <<"glfwTerminate", 0>>)
    /\ glfwInited' = FALSE
    /\ Advance
    /\ UNCHANGED <<variant, win, prog, progUsed, nextName, meshVars, closeReq,
                   timeVars, uniVars, drawLog, outVars>>

\* return 0
Return ==
    /\ pc = "return"
    /\ exitCode' = 0
    /\ pc' = "done"
    /\ UNCHANGED <<variant, code, glVars, meshVars, closeReq, timeVars, uniVars,
                   drawLog, diag>>

Next ==
    \/ GlfwInit \/ CreateWindow \/ makeProgram
    \/ Gen \/ MakeMesh \/ BuildNumeral \/ UseProgram
    \/ LoopTest \/ PollEvents \/ nowSeconds \/ ComputeAngles \/ Clear_
    \/ SetAngle \/ SetScale \/ SetTrans \/ SetColor \/ SetLineWidth \/ Draw
    \/ SwapBuffers
    \/ Destroy \/ DeleteProgram \/ DestroyWindow \/ Terminate \/ Return

Spec == Init /\ [][Next]_vars

(***************************************************************************)
(* The Clock Angle Calculator alone: any local time, one computation.      *)
(***************************************************************************)
InitAngles ==
    /\ variant \in Variants
    /\ pc = "angles"
    /\ code = <<>>
    /\ glfwInited = TRUE
    /\ win = 1
    /\ prog = [id |-> 1, linked |-> TRUE]
    /\ progUsed = 0
    /\ nextName = 1
    /\ tmp = <<>>
    /\ meshes = [k \in MeshKeys(variant) |-> NoMesh]
    /\ closeReq = FALSE
    /\ tm \in Times
    /\ aS = 0 /\ aM = 0 /\ aH = 0
    /\ uAngle = 0
    /\ uScale = <<0, 0>>
    /\ uTrans = <<0, 0>>
    /\ uColor = <<0, 0, 0>>
    /\ lineWidth = Unit
    /\ drawLog = <<>>
    /\ glLog = <<>>
    /\ exitCode = -1
    /\ diag = <<>>

SpecAngles == InitAngles /\ [][ComputeAngles]_vars

(***************************************************************************)
(* The ring, disc, circle and tick generators as functions of their        *)
(* arguments: each program's generators called twice in a row with the     *)
(* same arguments drawn from a bounded set, on a buffer that may still     *)
(* hold an earlier shape.                                                  *)
(***************************************************************************)
MaxSeg == 6

\* the counts the programs pass, and every count up to MaxSeg either side of 0
PassedCounts == {12, 40, 60, 128, 256}
SegCounts == (-MaxSeg..MaxSeg) \cup PassedCounts

\* the radius pairs the programs pass to their rings and ticks, in the order
\* they pass them
PassedRadii == {<<9800, 8600>>, <<8400, 8200>>, <<8200, 8800>>, <<7800, 9000>>,
                <<8800, 9500>>, <<8000, 9500>>}

\* the tick widths and the disc radii the programs pass
PassedWidths == {100, 200}
PassedDiscRadii == {Unit, 300}

\* the generators with a count argument each program defines
GenKinds(v) ==
    CASE v \in {"stroke", "filled"} -> {"genRing", "genDiscFan", "genTicks"}
      [] v = "spade"  -> {"genRing", "genDiscFan", "genTicks", "genCircle"}
      [] v = "plain"  -> {"genCircle", "genTicks", "genDiscFan"}
      [] v = "block"  -> {"genRingTris", "genDisc", "genTicksQuads"}
      [] OTHER        -> {"genRingTris", "genDisc"}

\* the call of generator g with count seg, radii rr, width w, disc radius r
GenCall(g, seg, rr, w, r) ==
    CASE g \in {"genRing", "genRingTris", "genTicks"} -> Gen3(g, seg, rr[1], rr[2])
      [] g = "genTicksQuads" -> Gen4(g, seg, rr[1], rr[2], w)
      [] g = "genDisc"       -> Gen3(g, seg, r, 0)
      [] OTHER               -> Gen1(g, seg)

GenCalls(v) ==
    {GenCall(g, seg, rr, w, r) :
        g \in GenKinds(v), seg \in SegCounts, rr \in PassedRadii,
        w \in PassedWidths, r \in PassedDiscRadii}

\* the shared buffer before the call: empty, or the shape generated last
StaleBuffers == {<<>>, genUnitHand(<<>>)}

InitGen ==
    /\ variant \in Variants
    /\ pc = "build"
    /\ code \in {<<st, st>> : st \in GenCalls(variant)}
    /\ glfwInited = TRUE
    /\ win = 1
    /\ prog = [id |-> 1, linked |-> TRUE]
    /\ progUsed = 0
    /\ nextName = 1
    /\ tmp \in StaleBuffers
    /\ meshes = [k \in MeshKeys(variant) |-> NoMesh]
    /\ closeReq = FALSE
    /\ tm = NoTime
    /\ aS = 0 /\ aM = 0 /\ aH = 0
    /\ uAngle = 0
    /\ uScale = <<0, 0>>
    /\ uTrans = <<0, 0>>
    /\ uColor = <<0, 0, 0>>
    /\ lineWidth = Unit
    /\ drawLog = <<>>
    /\ glLog = <<>>
    /\ exitCode = -1
    /\ diag = <<>>

NextGen == Gen \/ GenThrows

SpecGen == InitGen /\ [][NextGen]_vars

(***************************************************************************)
(* main under a scheduler that lets it run: from the frame loop on, every  *)
(* call returns and the next statement is executed.                        *)
(***************************************************************************)
\* the steps of the frame loop and of the teardown
LoopNext ==
    \/ UseProgram
    \/ LoopTest \/ PollEvents \/ nowSeconds \/ ComputeAngles \/ Clear_
    \/ SetAngle \/ SetScale \/ SetTrans \/ SetColor \/ SetLineWidth \/ Draw
    \/ SwapBuffers
    \/ Destroy \/ DeleteProgram \/ DestroyWindow \/ Terminate \/ Return

SpecLive == Init /\ [][Next]_vars /\ WF_vars(LoopNext)

(***************************************************************************)
(* The vertex stage every draw call runs its mesh through.                 *)
(***************************************************************************)
\* kVS: c = cos(uAngle), s = sin(uAngle);
\*      p = (c*aPos.x - s*aPos.y, s*aPos.x + c*aPos.y); p = p*uScale + uTranslate
kVS(aPos, angle, scale, trans) ==
    LET c  == Cos(angle)
        s  == Sin(angle)
        px == FMul(c, aPos[1]) - FMul(s, aPos[2])
        py == FMul(s, aPos[1]) + FMul(c, aPos[2])
    IN  <<FMul(px, scale[1]) + trans[1], FMul(py, scale[2]) + trans[2]>>

(***************************************************************************)
(* What the claims speak of.                                               *)
(***************************************************************************)
HandRoles == {"hourHand", "minuteHand", "secondHand"}

\* the draw calls of the frame under construction
Drawn == 1..Len(drawLog)

\* a frame is under construction, or complete and about to be shown
InFrame == pc \in {"frame", "swap"}
FrameDone == pc = "swap"

\* the tip of a hand mesh: the point of its axis (local +Y) at its largest y
HandTip(key) ==
    LET data == meshes[key].data
        Ys   == {data[2 * k] : k \in 1..NPoints(data)}
    IN  <<0, CHOOSE y \in Ys : \A z \in Ys : z <= y>>

\* where the vertex stage puts the tip of the hand of draw call d
ShownTip(d) == kVS(HandTip(d.key), d.angle, d.scale, d.trans)

Midnight == [hour |-> 0, min |-> 0, sec |-> 0, frac |-> 0]

\* C1 (as the spec states it): at local time 00:00:00 the tip of every hand,
\* taken from its mesh (which points along local +Y) through the vertex stage
\* with the angle, scale and translation of its draw call, is straight above
\* the pivot: x = 0 and y > 0, in every program.
C1_MidnightHandsPointUp ==
    (InFrame /\ tm = Midnight) =>
        \A i \in Drawn :
            (drawLog[i].role \in HandRoles /\ drawLog[i].prog # 0) =>
                /\ ShownTip(drawLog[i])[1] = 0
                /\ ShownTip(drawLog[i])[2] > 0

\* the clock fractions of a local time, counted in 1/SubDen seconds: the
\* seconds of the minute (with the sub-second part where the program sweeps),
\* the seconds of the hour, the seconds of the half day
SubSecondsOfMinute == tm.sec * SubDen + (IF Sweeping(variant) THEN tm.frac ELSE 0)
SubSecondsOfHour == tm.min * 60 * SubDen + SubSecondsOfMinute
SubSecondsOfHalfDay == (tm.hour % 12) * 3600 * SubDen + SubSecondsOfHour

\* the three angles of the frame have been computed
AnglesComputed == pc = "clear"

\* C2: for every local time (tm_hour 0..23, tm_min 0..59, tm_sec 0..59) the
\* frame computes second angle = angle(s/60), minute angle = angle(m/60) and
\* hour angle = angle(h/12) with m = tm_min + s/60, h = (tm_hour mod 12) + m/60,
\* angle(f) being a quarter turn minus f turns.  In parts of a turn: s/60 is
\* SubSecondsOfMinute out of 60*SubDen, m/60 is SubSecondsOfHour out of
\* 3600*SubDen, h/12 is SubSecondsOfHalfDay out of 43200*SubDen = TURN.
C2_AnglesOfTime ==
    AnglesComputed =>
        /\ (QuarterTurn - aS) * (60 * SubDen) = SubSecondsOfMinute * TURN
        /\ (QuarterTurn - aM) * (3600 * SubDen) = SubSecondsOfHour * TURN
        /\ QuarterTurn - aH = SubSecondsOfHalfDay
        /\ TURN = 43200 * SubDen

\* C2 witness: the last instant of the day in a sweeping program, computed
C2_Witness ==
    /\ AnglesComputed
    /\ Sweeping(variant)
    /\ tm = [hour |-> 23, min |-> 59, sec |-> 59, frac |-> 1]
    /\ aH = QuarterTurn - (TURN - 1)

\* a whole hour H:00:00 / a half hour H:30:00, exactly
WholeHour == tm.min = 0 /\ tm.sec = 0 /\ tm.frac = 0
HalfHour == tm.min = 30 /\ tm.sec = 0 /\ tm.frac = 0

\* the numeral the hour hand is at on the whole hour H: 12 for H mod 12 = 0
NumeralOfHour(H) == IF H % 12 = 0 THEN 12 ELSE H % 12

\* C3 (as the spec states it): at every whole hour H:00:00 the hour-hand angle
\* is the placement angle of numeral H (numeral 12 for H mod 12 = 0) and the
\* minute and second angles are both a quarter turn (pi/2); at 03:00:00 the
\* hour angle is 0, the placement angle of numeral 3.
C3_WholeHourAtNumeral ==
    (AnglesComputed /\ WholeHour /\ HasNumerals(variant)) =>
        /\ aH = NumeralPlaceAngle(variant, NumeralOfHour(tm.hour))
        /\ aM = QuarterTurn
        /\ aS = QuarterTurn
        /\ (tm.hour = 3 => aH = 0 /\ NumeralPlaceAngle(variant, 3) = 0)

\* the hour angle the program computes at H:00:00 (H taken modulo 24)
HourAngleAt(H) ==
    hourAngle(variant, [hour |-> H % 24, min |-> 0, sec |-> 0, frac |-> 0])

\* C4 (as the spec states it): at H:30:00 the minute angle is -pi/2 and the
\* hour angle is exactly halfway between the hour angles of H:00:00 and
\* (H+1):00:00; at 06:30:00 the hour angle is -pi/2 - pi/12.
C4_HalfwayBetweenHours ==
    (AnglesComputed /\ HalfHour) =>
        /\ aM = -QuarterTurn
        /\ 2 * aH = HourAngleAt(tm.hour) + HourAngleAt(tm.hour + 1)
        /\ (tm.hour = 6 => aH = -QuarterTurn - TURN \div 24)

\* C4 (amended): at H:30:00 the minute angle is -pi/2 and the hour angle is
\* the hour angle of H:00:00 less pi/12 (1/24 turn): halfway between the hour
\* angles of H:00:00 and (H+1):00:00 up to a whole turn, and numerically
\* halfway whenever H mod 12 is not 11 (the angle of (H+1):00:00 then starts
\* over at pi/2); at 06:30:00 it is -pi/2 - pi/12.
C4_HalfHourPastTheHour ==
    (AnglesComputed /\ HalfHour) =>
        /\ aM = -QuarterTurn
        /\ aH = HourAngleAt(tm.hour) - TURN \div 24
        /\ (2 * aH - (HourAngleAt(tm.hour) + HourAngleAt(tm.hour + 1))) % TURN = 0
        /\ (tm.hour % 12 # 11 =>
                2 * aH = HourAngleAt(tm.hour) + HourAngleAt(tm.hour + 1))
        /\ (tm.hour = 6 => aH = -QuarterTurn - TURN \div 24)

\* C4 witness: 23:30:00, where the next whole hour starts the dial over
C4_Witness ==
    /\ AnglesComputed
    /\ tm = [hour |-> 23, min |-> 30, sec |-> 0, frac |-> 0]
    /\ aH = HourAngleAt(23) - TURN \div 24
    /\ HourAngleAt(24) = QuarterTurn

\* C5: angle(0) = pi/2 and angle(1/4) = 0, and angle is strictly decreasing on
\* [0,1): of two fractions the larger has the smaller angle.  The fractions
\* are those the frame feeds to toA (s/60, m/60, h/12, in parts of a turn),
\* compared with each other, with the next fraction of the grid and with the
\* last one below a whole turn.
C5_AngleOfFraction ==
    AnglesComputed =>
        LET fS == SubSecondsOfMinute * 720
            fM == SubSecondsOfHour * 12
            fH == SubSecondsOfHalfDay
        IN  /\ \A f \in {fS, fM, fH} :
                /\ 0 <= f /\ f < TURN
                /\ (f = 0 => toA(f) = QuarterTurn)
                /\ (4 * f = TURN => toA(f) = 0)
                /\ \A g \in {f + 1, TURN - 1} : (f < g /\ g < TURN) => toA(g) < toA(f)
            /\ aS = toA(fS) /\ aM = toA(fM) /\ aH = toA(fH)
            /\ (fS < fM => aM < aS) /\ (fM < fS => aS < aM)
            /\ (fS < fH => aH < aS) /\ (fH < fS => aS < aH)
            /\ (fM < fH => aH < aM) /\ (fH < fM => aM < aH)

\* C5 witness: 03:00:00, the hour fraction a quarter, the others zero
C5_Witness ==
    /\ AnglesComputed
    /\ SubSecondsOfHalfDay * 4 = TURN
    /\ SubSecondsOfHour = 0
    /\ aH = 0
    /\ aM = QuarterTurn

\* the numeral draw calls of the frame under construction and their numerals
NumeralDraws == {i \in Drawn : drawLog[i].role = "numeral"}
NumeralOf(d) == d.key[2]

\* angle((n/12) mod 1): a quarter turn less (n mod 12)/12 of a turn
TwelfthsAngle(n) == QuarterTurn - (n % 12) * (TURN \div 12)

\* C6 (as the spec states it): in every program that draws numerals, numeral n
\* is translated to (cos(a)*rNum, sin(a)*rNum) with a = angle((n/12) mod 1), so
\* numeral 12 is at the top and numeral 3 due right.
C6_NumeralsClockwiseFromTop ==
    \A i \in NumeralDraws :
        drawLog[i].prog # 0 =>
            LET n == NumeralOf(drawLog[i])
                a == TwelfthsAngle(n)
            IN  /\ drawLog[i].trans = <<FMul(Cos(a), rNum(variant)),
                                        FMul(Sin(a), rNum(variant))>>
                /\ (n = 12 => drawLog[i].trans[1] = 0 /\ drawLog[i].trans[2] > 0)
                /\ (n = 3 => drawLog[i].trans[1] > 0 /\ drawLog[i].trans[2] = 0)

\* C7: in every frame every numeral draw call is issued with rotation angle 0,
\* whatever the hand angles of this frame (aH, aM, aS) or the angle left in
\* the uniform by the frame before.
C7_NumeralsUpright ==
    \A i \in NumeralDraws : drawLog[i].angle = 0

\* C7 witness: all twelve numerals drawn, numeral 12 upright, in a frame whose
\* three hand angles are not 0
C7_Witness ==
    /\ InFrame
    /\ variant = "block"
    /\ aH # 0 /\ aM # 0 /\ aS # 0
    /\ \E i \in NumeralDraws :
        /\ NumeralOf(drawLog[i]) = 12
        /\ drawLog[i].prog # 0
        /\ drawLog[i].angle = 0
    /\ Cardinality(NumeralDraws) = 12

\* a step of a frame: what is drawn, and which numeral
Step(d) == <<d.role, d.key[2]>>
DrawnSteps == [i \in Drawn |-> Step(drawLog[i])]

\* the back-to-front order of the spec
NumeralSteps == [n \in 1..12 |-> <<"numeral", n>>]
BackToFront ==
    << <<"bezel", 0>>, <<"dial", 0>>, <<"chapter", 0>>, <<"minuteTicks", 0>>,
       <<"hourTicks", 0>> >>
    \o NumeralSteps
    \o << <<"hourHand", 0>>, <<"minuteHand", 0>>, <<"secondHand", 0>> >>
CapStep == << <<"cap", 0>> >>

\* C8 (as the spec states it): every frame issues the draw calls bezel ring,
\* dial disc, chapter ring, minute ticks, hour ticks, numerals 1 to 12
\* ascending, hour, minute, second hand, and last the centre cap where the
\* program has one, with no step reordered, repeated or skipped.
C8_FullBackToFrontOrder ==
    FrameDone => DrawnSteps \in {BackToFront, BackToFront \o CapStep}

\* the steps a program has no mesh for; the outline program draws the dial as
\* one outline in place of bezel, disc and chapter ring
LeftOut(v) ==
    CASE v \in {"stroke", "filled"} -> {"dialOutline"}
      [] v = "plain"   -> {"bezel", "dial", "chapter", "numeral"}
      [] v = "spade"   -> {"dialOutline", "numeral"}
      [] v = "block"   -> {"dialOutline", "cap"}
      [] OTHER         -> {"dialOutline", "minuteTicks", "hourTicks", "cap"}

\* the back-to-front order without the steps a program leaves out
OrderOf(v) ==
    LET Kept(st) == st[1] \notin LeftOut(v)
    IN  SelectSeq(<< <<"dialOutline", 0>> >> \o BackToFront \o CapStep, Kept)

IsPrefix(a, b) == Len(a) <= Len(b) /\ a = SubSeq(b, 1, Len(a))

\* C8 (amended): every frame of a program issues the same draw calls in the
\* same order, the back-to-front order (dial outline or bezel ring, dial disc,
\* chapter ring; minute ticks, hour ticks; numerals 1 to 12 ascending; hour,
\* minute, second hand; centre cap) less the steps the program has no mesh
\* for: no frame reorders, repeats or skips a step of its program.
C8_FixedOrderPerProgram ==
    /\ InFrame => IsPrefix(DrawnSteps, OrderOf(variant))
    /\ FrameDone => DrawnSteps = OrderOf(variant)

\* C8 witness: a complete frame of the program that leaves the most out
C8_Witness ==
    /\ FrameDone
    /\ variant = "noticks"
    /\ Len(drawLog) = 18
    /\ drawLog[18].role = "secondHand"
    /\ closeReq

\* the marks a tick draw call puts on the dial: a mark is a line (2 points)
\* or a filled bar (two triangles, 6 points)
Marks(d) == IF d.mode = "LINES" THEN d.count \div 2 ELSE d.count \div 6

Black == <<0, 0, 0>>
TickRoles == {"minuteTicks", "hourTicks"}
UnderTicks == {"bezel", "dial", "chapter", "dialOutline"}
OverTicks == {"numeral", "hourHand", "minuteHand", "secondHand", "cap"}

\* a complete frame draws the 60 minute ticks, then the 12 hour ticks, black,
\* after the rings and the disc, before every numeral, hand and cap
TicksDrawn ==
    \E i \in Drawn :
        /\ i + 1 \in Drawn
        /\ drawLog[i].role = "minuteTicks" /\ Marks(drawLog[i]) = 60
        /\ drawLog[i + 1].role = "hourTicks" /\ Marks(drawLog[i + 1]) = 12
        /\ drawLog[i].color = Black /\ drawLog[i + 1].color = Black
        /\ \A j \in Drawn :
            /\ (drawLog[j].role \in TickRoles => j \in {i, i + 1})
            /\ (drawLog[j].role \in UnderTicks => j < i)
            /\ (drawLog[j].role \in OverTicks => j > i + 1)

\* C9 (as the spec states it): in every program each frame draws the 60 minute
\* ticks and then the 12 hour ticks, in black, after the chapter ring and
\* before any numeral or hand.
C9_TicksInEveryProgram ==
    FrameDone => TicksDrawn

\* C9 (amended): in every program but the one that builds no tick mesh
\* ("noticks") each frame draws the 60 minute ticks and then the 12 hour
\* ticks, in black, after the chapter ring and before any numeral or hand;
\* that one program draws no tick at all.
C9_TicksWhereBuilt ==
    FrameDone =>
        IF variant = "noticks"
        THEN \A j \in Drawn : drawLog[j].role \notin TickRoles
        ELSE TicksDrawn

\* C9 witness: a complete frame with tick bars, and with tick lines
C9_Witness ==
    /\ FrameDone
    /\ variant = "stroke"
    /\ TicksDrawn
    /\ \E i \in Drawn : drawLog[i].role = "minuteTicks" /\ drawLog[i].count = 120
                        /\ drawLog[i].prog # 0

\* the classic seven-segment table
ClassicSegments(d) ==
    CASE d = 0 -> {"A", "B", "C", "D", "E", "F"}
      [] d = 1 -> {"B", "C"}
      [] d = 2 -> {"A", "B", "G", "E", "D"}
      [] d = 3 -> {"A", "B", "G", "C", "D"}
      [] d = 4 -> {"F", "G", "B", "C"}
      [] d = 5 -> {"A", "F", "G", "C", "D"}
      [] d = 6 -> {"A", "F", "G", "E", "D", "C"}
      [] d = 7 -> {"A", "B", "C"}
      [] d = 8 -> {"A", "B", "C", "D", "E", "F", "G"}
      [] OTHER -> {"A", "B", "C", "D", "F", "G"}

\* vertices per lit segment: a line in the stroke style, two triangles in the
\* filled style
VerticesPerSegment(v) == IF v = "stroke" THEN 2 ELSE 6

\* twice the centre of the bounding box of the g-th group of per points
GroupCentre2(data, per, g) ==
    LET Ks == ((g - 1) * per + 1)..(g * per)
        Xs == {data[2 * k - 1] : k \in Ks}
        Ys == {data[2 * k] : k \in Ks}
        Min(S) == CHOOSE x \in S : \A y \in S : x <= y
        Max(S) == CHOOSE x \in S : \A y \in S : y <= x
    IN  <<Min(Xs) + Max(Xs), Min(Ys) + Max(Ys)>>

\* the segment a group of vertices draws, read off where it lies in the cell
\* of its digit (cx2: twice the x of the cell's centre): A top, G middle,
\* D bottom, B and C right (upper, lower), F and E left (upper, lower)
SegmentAt(c2, cx2) ==
    CASE c2[1] = cx2 /\ c2[2] > 0 -> "A"
      [] c2[1] = cx2 /\ c2[2] = 0 -> "G"
      [] c2[1] = cx2 /\ c2[2] < 0 -> "D"
      [] c2[1] > cx2 /\ c2[2] > 0 -> "B"
      [] c2[1] > cx2 /\ c2[2] < 0 -> "C"
      [] c2[1] < cx2 /\ c2[2] > 0 -> "F"
      [] c2[1] < cx2 /\ c2[2] < 0 -> "E"
      [] OTHER -> "none"

\* the digits of numeral n, left to right, each with the side of the numeral
\* its cell is on (-1 left, 0 centred, 1 right)
DigitsOf(n) == IF n < 10 THEN << <<n, 0>> >> ELSE << <<n \div 10, -1>>, <<n % 10, 1>> >>

\* the vertex groups of a numeral mesh that lie on the given side
GroupsOnSide(m, per, side) ==
    {g \in 1..(m.count \div per) :
        LET x2 == GroupCentre2(m.data, per, g)[1]
        IN  side = 0 \/ (side < 0 /\ x2 < 0) \/ (side > 0 /\ x2 > 0)}

\* the segments lit in the cell on the given side of a numeral mesh
SegmentsOnSide(m, per, side) ==
    {SegmentAt(GroupCentre2(m.data, per, g), 2 * side * digitOffset(variant)) :
        g \in GroupsOnSide(m, per, side)}

\* buildNumerals is at work or has just returned: the numeral meshes are as
\* the generators left them
NumeralsFresh == pc \in {"build", "loopTest"}

\* C10: for every digit d in 0..9 the seven-segment generators emit exactly
\* the segments of the classic table and nothing else, 2 vertices per lit
\* segment in the stroke style and 6 in the filled style; read off every
\* numeral mesh as buildNumerals makes it (digits 1..9 alone, 1 with 0, 1, 2).
C10_ClassicSevenSegments ==
    (variant \in {"stroke", "filled"} /\ NumeralsFresh) =>
        \A n \in 1..12 :
            LET m   == meshes[<<"numerals", n>>]
                per == VerticesPerSegment(variant)
                ds  == DigitsOf(n)
            IN  m.vao # 0 =>
                    /\ m.count % per = 0
                    /\ Len(m.data) = 2 * m.count
                    /\ \A k \in 1..Len(ds) :
                        /\ SegmentsOnSide(m, per, ds[k][2]) = ClassicSegments(ds[k][1])
                        /\ Cardinality(GroupsOnSide(m, per, ds[k][2]))
                            = Cardinality(ClassicSegments(ds[k][1]))
                    /\ \A g \in 1..(m.count \div per) :
                        \E k \in 1..Len(ds) : g \in GroupsOnSide(m, per, ds[k][2])

\* C10 witness: the filled style has built numerals 8, 10 (digits 1 and 0)
\* and 12
C10_Witness ==
    /\ variant = "filled"
    /\ NumeralsFresh
    /\ meshes[<<"numerals", 8>>].count = 7 * 6
    /\ meshes[<<"numerals", 10>>].count = (2 + 6) * 6
    /\ meshes[<<"numerals", 12>>].vao # 0


\* the programs whose numerals buildNumerals composes of digit glyphs
Composing == {"stroke", "filled", "block"}

\* the x coordinates of a vertex list
XsOf(d) == {d[2 * k - 1] : k \in 1..NPoints(d)}
MinOf(S) == CHOOSE x \in S : \A y \in S : x <= y
MaxOf(S) == CHOOSE x \in S : \A y \in S : y <= x

\* the two glyphs of a two-digit numeral mesh: the vertices buildNumerals
\* pushed first (tens) and second (ones)
TensPart(m, n) == SubSeq(m.data, 1, Len(digitGlyph(variant, n \div 10)))
OnesPart(m, n) ==
    SubSeq(m.data, Len(digitGlyph(variant, n \div 10)) + 1, Len(m.data))

\* how far a part lies from the glyph it was copied from (to the right: > 0)
ShiftOf(part, glyph) == part[1] - glyph[1]

\* C11 (as the spec states it): for each two-digit numeral (10, 11, 12) built
\* by buildNumerals the tens glyph is shifted left and the ones glyph right by
\* the same offset, the offset is half the glyph width plus the inter-digit
\* gap, the bounding boxes of the two glyphs do not overlap, and their centres
\* are 2 x (half-width + gap) apart.
C11_SideBySideByHalfWidthAndGap ==
    (variant \in Composing /\ NumeralsFresh) =>
        \A n \in 10..12 :
            LET m    == meshes[<<"numerals", n>>]
                g1   == digitGlyph(variant, n \div 10)
                g2   == digitGlyph(variant, n % 10)
                left == -ShiftOf(TensPart(m, n), g1)
                rght == ShiftOf(OnesPart(m, n), g2)
            IN  m.vao # 0 =>
                    /\ TensPart(m, n) = shiftX(g1, -left)
                    /\ OnesPart(m, n) = shiftX(g2, rght)
                    /\ left > 0 /\ left = rght
                    /\ rght = glyphHalfWidth(variant) + digitGap(variant)
                    /\ MaxOf(XsOf(TensPart(m, n))) < MinOf(XsOf(OnesPart(m, n)))
                    /\ left + rght = 2 * (glyphHalfWidth(variant) + digitGap(variant))


\* C11 (amended): for each two-digit numeral (10, 11, 12) built by
\* buildNumerals the tens glyph is shifted left and the ones glyph right by
\* the same offset, a fixed centre offset plus the inter-digit gap (0.6 + 0.2,
\* 0.7 + 0.2, 0.75 + 0.1), which is more than half the glyph width plus the
\* gap; the bounding boxes of the two glyphs do not overlap, and their centres
\* are twice the offset apart.
C11_SideBySideByFixedOffset ==
    (variant \in Composing /\ NumeralsFresh) =>
        \A n \in 10..12 :
            LET m    == meshes[<<"numerals", n>>]
                g1   == digitGlyph(variant, n \div 10)
                g2   == digitGlyph(variant, n % 10)
                left == -ShiftOf(TensPart(m, n), g1)
                rght == ShiftOf(OnesPart(m, n), g2)
            IN  m.vao # 0 =>
                    /\ TensPart(m, n) = shiftX(g1, -left)
                    /\ OnesPart(m, n) = shiftX(g2, rght)
                    /\ left > 0 /\ left = rght
                    /\ rght = digitOffset(variant)
                    /\ rght > glyphHalfWidth(variant) + digitGap(variant)
                    /\ MaxOf(XsOf(TensPart(m, n))) < MinOf(XsOf(OnesPart(m, n)))
                    /\ left + rght = 2 * digitOffset(variant)

\* C11 witness: the block-numeral program has built numeral 12, its glyph 2
\* moved 0.85 to the right
C11_Witness ==
    /\ variant = "block"
    /\ NumeralsFresh
    /\ meshes[<<"numerals", 12>>].vao # 0
    /\ ShiftOf(OnesPart(meshes[<<"numerals", 12>>], 12), digitGlyph("block", 2)) = 8500

\* C12 (as the spec states it): in every program that draws numerals the mesh
\* at index n holds exactly the glyph of digit n for n in 1..9, and for n in
\* 10..12 the glyph of its tens digit and the glyph of its ones digit, side by
\* side; no index shows the glyph of another label.
C12_EachIndexShowsItsLabel ==
    (HasNumerals(variant) /\ NumeralsFresh) =>
        \A n \in 1..12 :
            LET m  == meshes[<<NumeralArray(variant), n>>]
                g1 == digitGlyph(variant, n \div 10)
                g2 == digitGlyph(variant, n % 10)
            IN  m.vao # 0 =>
                    IF n < 10 THEN m.data = digitGlyph(variant, n)
                    ELSE /\ Len(m.data) = Len(g1) + Len(g2)
                         /\ TensPart(m, n) = shiftX(g1, ShiftOf(TensPart(m, n), g1))
                         /\ OnesPart(m, n) = shiftX(g2, ShiftOf(OnesPart(m, n), g2))
                         /\ ShiftOf(TensPart(m, n), g1) < ShiftOf(OnesPart(m, n), g2)

\* the buffer and vertex-array names handed out so far: one per mesh created
Created == 1..(nextName - 1)

\* how often a name was passed to a delete call
Deletes(what, k) == Cardinality({i \in 1..Len(glLog) : glLog[i] = <<what, k>>})

\* the mesh in a slot exists: it was created and not destroyed
Live(key) ==
    /\ meshes[key].vao \in Created /\ meshes[key].vbo \in Created
    /\ Deletes("glDeleteVertexArrays", meshes[key].vao) = 0
    /\ Deletes("glDeleteBuffers", meshes[key].vbo) = 0

\* main has run its teardown to the end
NormalShutdown == pc = "return" \/ (pc = "done" /\ exitCode = 0)

\* slot 0 of the numeral array, which no loop fills
SlotZero == <<NumeralArray(variant), 0>>

\* C13: in a run that reaches normal shutdown every mesh created has been
\* destroyed exactly once (its buffer and its vertex array deleted once each);
\* every draw and every destroy is issued on a mesh that exists at that
\* moment, so none after the destruction and none on the slot that is never
\* created, index 0 of the numeral array.
C13_MeshLifecycle ==
    /\ NormalShutdown =>
            \A k \in Created : /\ Deletes("glDeleteBuffers", k) = 1
                               /\ Deletes("glDeleteVertexArrays", k) = 1
    /\ AtStmt("draw") => Live(Cur.key)
    /\ AtStmt("destroy") => Live(Cur.key)
    /\ \A i \in Drawn : drawLog[i].vao \in Created
    /\ HasNumerals(variant) =>
            /\ meshes[SlotZero].vao = 0 /\ meshes[SlotZero].vbo = 0
            /\ (InStmts /\ Cur.op \in {"draw", "destroy", "numeral"}) => Cur.key # SlotZero

\* C13 witness: the block-numeral program after normal shutdown, 8 meshes and
\* 12 numerals created and deleted
C13_Witness ==
    /\ pc = "done" /\ exitCode = 0
    /\ variant = "block"
    /\ nextName = 21
    /\ Len(glLog) = 2 * 20 + 3

\* where in the log of release calls a kind of call stands
Pos(whats) == {i \in 1..Len(glLog) : glLog[i][1] \in whats}
Before(A, B) == \A i \in A, j \in B : i < j

\* C14: teardown is ordered.  All meshes are destroyed before the program is
\* deleted, the program before the window is destroyed, the window before the
\* library is terminated; and teardown starts only after the frame loop has
\* ended: the close request is up, no frame is under construction, and while
\* the loop may still run nothing has been released.
C14_TeardownOrdered ==
    /\ Before(Pos({"glDeleteBuffers", "glDeleteVertexArrays"}), Pos({"glDeleteProgram"}))
    /\ Before(Pos({"glDeleteProgram"}), Pos({"glfwDestroyWindow"}))
    /\ Before(Pos({"glfwDestroyWindow"}), Pos({"glfwTerminate"}))
    /\ AtStmt("deleteProgram") => \A k \in DOMAIN meshes : meshes[k].vao = 0
    /\ AtStmt("destroyWindow") => prog = NoProgram
    /\ AtStmt("terminate") => win = 0 /\ prog = NoProgram
    /\ pc \in {"teardown", "return"} => closeReq /\ drawLog = <<>> /\ tm = NoTime
    /\ pc \in {"build", "loopTest", "poll", "time", "angles", "clear", "frame", "swap"}
            => glLog = <<>>

\* C14 witness: the spade-hand program has run the whole teardown: 9 meshes,
\* then the program, the window, the library
C14_Witness ==
    /\ pc = "return"
    /\ variant = "spade"
    /\ Len(glLog) = 2 * 9 + 3
    /\ glLog[19][1] = "glDeleteProgram"
    /\ glLog[20][1] = "glfwDestroyWindow"
    /\ glLog[21][1] = "glfwTerminate"

\* C15: on every exit path of main (library init failed, window creation
\* failed, window closed) everything acquired has been released when main
\* returns: the library is not initialised, no window, no program, no mesh
\* holds a buffer or a vertex array, and every name handed out was deleted.
C15_AllReleasedOnExit ==
    pc = "done" =>
        /\ exitCode \in {0, 1}
        /\ ~glfwInited
        /\ win = 0
        /\ prog = NoProgram /\ progUsed = 0
        /\ \A k \in DOMAIN meshes : meshes[k].vao = 0 /\ meshes[k].vbo = 0
        /\ \A k \in Created : /\ Deletes("glDeleteBuffers", k) >= 1
                              /\ Deletes("glDeleteVertexArrays", k) >= 1
        /\ (Pos({"glDeleteProgram"}) # {}) = (exitCode = 0)
        /\ (Pos({"glfwDestroyWindow"}) # {}) = (exitCode = 0)

\* C15 witness: main has returned after the window could not be created, the
\* library initialised before it and terminated again
C15_Witness ==
    /\ pc = "done"
    /\ exitCode = 1
    /\ glLog = << <<"glfwTerminate", 0>> >>
    /\ ~glfwInited


\* C16 (as the spec states it): when the library initialization or the window
\* creation fails, main exits from there with the failure reported on the
\* diagnostic stream and a non-zero status, without having entered the frame
\* loop or created a program or a mesh.
C16_InitFailureReported ==
    [][ (pc \in {"glfwInit", "createWindow"} /\ pc' = "done") =>
            /\ diag' # <<>>
            /\ exitCode' > 0
            /\ prog' = NoProgram /\ progUsed' = 0
            /\ nextName' = 1
            /\ drawLog' = <<>> /\ tm' = NoTime /\ ~closeReq' ]_vars

\* makeProgram reported a link failure
LinkFailed == \E i \in 1..Len(diag) : diag[i] = "[Link]"

\* where main is from the loop test to the buffer swap
LoopPcs == {"loopTest", "poll", "time", "angles", "clear", "frame", "swap"}

\* C17: a shader compile failure or a program link failure puts diagnostic
\* text on the stream and is not fatal: makeProgram still returns a program
\* handle, main goes on to build every mesh and to run the frame loop, leaves
\* it only on a close request, and the exit status is then 0.
C17_ShaderFailureNotFatal ==
    /\ prog.id # 0 => (prog.linked = ~LinkFailed)
    /\ pc \in LoopPcs \cup {"build"} => prog.id # 0
    /\ LinkFailed =>
        /\ pc \in LoopPcs \cup {"build", "teardown", "return", "done"}
        /\ pc \in LoopPcs =>
                \A k \in DOMAIN meshes \ {SlotZero} : meshes[k].vao # 0
        /\ pc \in {"teardown", "return", "done"} => closeReq
        /\ pc = "done" => exitCode = 0
        /\ exitCode \in {-1, 0}

\* C17 witness: a run whose vertex shader did not compile has drawn frames
\* and returned 0 after the window was closed
C17_Witness ==
    /\ pc = "done"
    /\ exitCode = 0
    /\ diag = <<"[Shader]", "[Link]">>
    /\ closeReq

\* main is in the body of the loop, past the polling
FramePcs == {"time", "angles", "clear", "frame"}

\* C18: the close request is tested once per iteration, before the polling:
\* polling is reached only from the test, with the request down, and after a
\* swap the test comes next.  The request, once up, stays up; the frame in
\* progress is then completed, the test that follows leaves the loop so that
\* no further frame is started, and main eventually has run the teardown and
\* returned 0.
C18_CloseEndsTheLoop ==
    /\ [][pc' = "poll" => (pc = "loopTest" /\ ~closeReq)]_vars
    /\ [][pc = "swap" => pc' = "loopTest"]_vars
    /\ [][pc' = "loopTest" => pc \in {"build", "swap"}]_vars
    /\ [][closeReq => closeReq']_vars
    /\ [][(closeReq /\ pc \in FramePcs) => pc' \in FramePcs \cup {"swap"}]_vars
    /\ [][(closeReq /\ pc = "loopTest") => pc' = "teardown"]_vars
    /\ [][(closeReq /\ pc \in {"teardown", "return", "done"})
            => pc' \in {"teardown", "return", "done"}]_vars
    /\ closeReq ~> (pc = "done" /\ exitCode = 0)

\* C18 witness: the request came up while a frame was to be drawn, that frame
\* is complete and about to be shown
C18_Witness ==
    /\ closeReq
    /\ FrameDone
    /\ variant = "plain"
    /\ Len(drawLog) = 7


\* the angles of a frame are in use: computed, and the frame not yet shown
AnglesInUse == pc \in {"clear", "frame", "swap"}

\* the hand draw calls of the frame under construction that take effect
HandDraws(role) == {i \in Drawn : drawLog[i].role = role /\ drawLog[i].prog # 0}

\* C19: the three hand angles used in a frame are a function of the timestamp
\* sampled in that frame only: in every frame of every run, whatever was
\* sampled in the frames before (the same instant, an earlier or a later
\* one), they are the angles of that timestamp, the same a run computes whose
\* first frame samples it, and each hand is drawn with its angle.
C19_AnglesOfThisFrameOnly ==
    AnglesInUse =>
        /\ (QuarterTurn - aS) * (60 * SubDen) = SubSecondsOfMinute * TURN
        /\ (QuarterTurn - aM) * (3600 * SubDen) = SubSecondsOfHour * TURN
        /\ QuarterTurn - aH = SubSecondsOfHalfDay
        /\ aS = secondAngle(variant, tm)
        /\ aM = minuteAngle(variant, tm)
        /\ aH = hourAngle(variant, tm)
        /\ \A i \in HandDraws("secondHand") : drawLog[i].angle = aS
        /\ \A i \in HandDraws("minuteHand") : drawLog[i].angle = aM
        /\ \A i \in HandDraws("hourHand") : drawLog[i].angle = aH

\* C19 witness: a frame after the first (the rotation uniform still holds the
\* second-hand angle the frame before left there, another one than now) has
\* computed the angles of 00:00:00
C19_Witness ==
    /\ pc = "clear"
    /\ variant = "block"
    /\ progUsed # 0
    /\ tm = Midnight
    /\ aS = QuarterTurn /\ aM = QuarterTurn /\ aH = QuarterTurn
    /\ uAngle \notin {0, aS}

\* the elements that do not turn, and the elements drawn in black
FixedRoles == {"bezel", "dial", "chapter", "minuteTicks", "hourTicks", "cap"}
BlackRoles == {"minuteTicks", "hourTicks", "numeral", "hourHand", "minuteHand", "cap"}

\* C20 (as the spec states it): at every draw call of every frame the
\* parameters in effect are those meant for the element: rotation 0 and
\* translation (0,0) for bezel, dial, chapter ring, ticks and centre cap;
\* translation (0,0) and its own angle of this frame for each hand; black for
\* ticks, numerals, hour hand, minute hand and cap; the accent colour, which
\* no other element has, for the second hand.
C20_IntendedParameters ==
    \A i \in Drawn :
        LET d == drawLog[i]
        IN  d.prog # 0 =>
                /\ d.role \in FixedRoles => (d.angle = 0 /\ d.trans = <<0, 0>>)
                /\ d.role \in HandRoles => d.trans = <<0, 0>>
                /\ d.role = "hourHand" => d.angle = aH
                /\ d.role = "minuteHand" => d.angle = aM
                /\ d.role = "secondHand" => d.angle = aS
                /\ d.role \in BlackRoles => d.color = Black
                /\ d.role = "secondHand" =>
                        /\ d.color # Black
                        /\ \A j \in Drawn : drawLog[j].color = d.color => j = i

\* C20 (amended): as stated, but the second hand has the accent colour, and
\* alone has it, in the five programs that set one; the outline program draws
\* every element in black, the second hand too.
C20_ParametersPerProgram ==
    \A i \in Drawn :
        LET d == drawLog[i]
        IN  d.prog # 0 =>
                /\ d.role \in FixedRoles => (d.angle = 0 /\ d.trans = <<0, 0>>)
                /\ d.role \in HandRoles => d.trans = <<0, 0>>
                /\ d.role = "hourHand" => d.angle = aH
                /\ d.role = "minuteHand" => d.angle = aM
                /\ d.role = "secondHand" => d.angle = aS
                /\ d.role \in BlackRoles => d.color = Black
                /\ d.role = "secondHand" =>
                        IF variant = "plain" THEN d.color = Black
                        ELSE /\ d.color # Black
                             /\ \A j \in Drawn : drawLog[j].color = d.color => j = i

\* C20 witness: a complete frame after the first of the stroke-numeral program
\* (the line width at its first draw call is the one the frame before set for
\* the numerals), the second hand drawn last but one in its own colour
C20_Witness ==
    /\ FrameDone
    /\ variant = "stroke"
    /\ drawLog[1].lineWidth = 30000
    /\ drawLog[1].prog # 0
    /\ aS # 0 /\ aM # aS
    /\ drawLog[Len(drawLog) - 1].role = "secondHand"
    /\ drawLog[Len(drawLog) - 1].color # Black


(***************************************************************************)
(* C21: the frame loop leaves the mesh set alone.                          *)
(***************************************************************************)
\* C21: no step of the frame loop creates a mesh or changes a mesh's buffer
\* handles, vertex count, topology or uploaded vertices, and none takes a new
\* object name or touches the staging buffer: the meshes after any number of
\* frames are the meshes the loop was entered with.
C21_LoopLeavesMeshesAlone ==
    [][(pc \in LoopPcs /\ pc' \in LoopPcs) =>
            (meshes' = meshes /\ nextName' = nextName /\ tmp' = tmp)]_vars

\* C21 witness: the loop test is reached again after a whole frame was drawn
\* with a working program, every mesh of the program in place
C21_Witness ==
    /\ pc = "loopTest"
    /\ uScale # <<0, 0>>
    /\ progUsed # 0
    /\ \A key \in MeshKeys(variant) : meshes[key] # NoMesh


(***************************************************************************)
(* C22: the displayed length of a hand at different angles.                *)
(***************************************************************************)
\* the four angles a hand points up, left, down and right at
CardinalAngles == {0, QuarterTurn, 2 * QuarterTurn, -QuarterTurn}

\* the squared distance, on screen, from the pivot of draw call d to the tip
\* of its hand, were the hand turned by angle a
ShownLength2(d, a) ==
    LET p == kVS(HandTip(d.key), a, d.scale, d.trans)
    IN  (p[1] - d.trans[1]) * (p[1] - d.trans[1])
          + (p[2] - d.trans[2]) * (p[2] - d.trans[2])

\* C22: a hand's displayed length is the same at every hand angle: the
\* distance from the pivot to the tip as the vertex stage places it (rotate,
\* then scale, then translate) is equal at the angles 0, pi/2, pi and -pi/2.
C22_HandLengthSameAtEveryAngle ==
    \A i \in Drawn :
        LET d == drawLog[i]
        IN  (d.role \in HandRoles /\ d.prog # 0) =>
                \A a \in CardinalAngles :
                    ShownLength2(d, a) = ShownLength2(d, 0)


(***************************************************************************)
(* C23: the reach of the hands.                                            *)
(***************************************************************************)
\* the draw calls of the frame that lay down the dial
DialDraws == {i \in Drawn : drawLog[i].role \in {"dial", "dialOutline"}}

\* how far up the screen the highest point of the mesh of draw call d gets
\* when the mesh is not turned
Reach(d) == FMul(HandTip(d.key)[2], d.scale[2])

\* C23: every hand mesh has its tip at a maximum y of at most 1.0, and after
\* multiplying by the y-scale the hand is drawn with its reach does not exceed
\* the radius of the dial disc, 0.86 of the full radius.
C23_HandsWithinTheDial ==
    \A i \in Drawn :
        LET d == drawLog[i]
        IN  (d.role \in HandRoles /\ d.prog # 0) =>
                /\ HandTip(d.key)[2] <= Unit
                /\ \A j \in DialDraws :
                        drawLog[j].role = "dial" => Reach(d) <= Reach(drawLog[j])
                /\ 100 * Reach(d) <= 86 * Unit


(***************************************************************************)
(* C24: the ring generators.                                               *)
(***************************************************************************)
\* the generator call on top of the statement list has just been made once:
\* the buffer holds its output, the second, identical call is still to come
CalledOnce == pc = "build" /\ Len(code) = 1 /\ exitCode = -1

\* the squared distance from the origin of point k of buffer v
Dist2(v, k) == Pt(v, k)[1] * Pt(v, k)[1] + Pt(v, k)[2] * Pt(v, k)[2]

\* every point of buffer v is at a distance between lo and hi from the origin,
\* give or take two thousandths
AllBetween(v, lo, hi) ==
    \A k \in 1..NPoints(v) :
        /\ (lo - 20) * (lo - 20) <= Dist2(v, k)
        /\ Dist2(v, k) <= (hi + 20) * (hi + 20)

\* the buffer holds a ring of Cur.x slices: 2*(seg+1) strip vertices, the last
\* pair on the first, or 6*seg triangle-list vertices
RingOfSlices ==
    IF Cur.key[1] = "genRing"
    THEN /\ NPoints(tmp) = 2 * (Cur.x + 1)
         /\ Pt(tmp, NPoints(tmp) - 1) = Pt(tmp, 1)
         /\ Pt(tmp, NPoints(tmp)) = Pt(tmp, 2)
    ELSE NPoints(tmp) = 6 * Cur.x

RingCalled ==
    CalledOnce /\ Cur.key[1] \in {"genRing", "genRingTris"} /\ Cur.x >= 3

\* C24 as stated: for segments >= 3 the ring generator called with
\* (segments, r0, r1) makes exactly `segments` slices and every vertex is at a
\* distance d from the origin with r0 <= d <= r1.
C24_RingBetweenR0AndR1 ==
    RingCalled => (RingOfSlices /\ AllBetween(tmp, Cur.y, Cur.z))

\* C24 as the code has it: for segments >= 3 the ring generator makes exactly
\* `segments` slices, and every vertex is at a distance between the smaller
\* and the larger of r0 and r1, whichever of the two is passed first (the
\* programs pass the outer radius first).
C24_RingBetweenTheTwoRadii ==
    RingCalled =>
        /\ RingOfSlices
        /\ AllBetween(tmp, MinOf({Cur.y, Cur.z}), MaxOf({Cur.y, Cur.z}))

\* C24 witness: the bezel call of the strip programs, genRing(256, 0.98, 0.86),
\* has been made and left 514 vertices
C24_Witness ==
    /\ RingCalled
    /\ Cur.key[1] = "genRing"
    /\ Cur.x = 256 /\ Cur.y = 9800 /\ Cur.z = 8600
    /\ NPoints(tmp) = 514


(***************************************************************************)
(* C25: the generators called with a count of zero or less.                *)
(***************************************************************************)
\* C25: for a segment count or tick count <= 0 no generator (ring, disc,
\* circle, ticks, of any program) emits a vertex: the call is rejected or it
\* returns with an empty buffer.
C25_NoVertexForBadCount ==
    (CalledOnce /\ Cur.x <= 0) => Len(tmp) = 0


(***************************************************************************)
(* C26: vertex counts and topologies.                                      *)
(***************************************************************************)
\* the meshes made and not yet destroyed
Made == {key \in MeshKeys(variant) : meshes[key].vao # 0}

\* a vertex count n the primitive mode can draw without a partial primitive
FitsTopology(mode, n) ==
    CASE mode = "TRIANGLES"                          -> n % 3 = 0
      [] mode = "LINES"                              -> n % 2 = 0
      [] mode \in {"TRIANGLE_FAN", "TRIANGLE_STRIP"} -> n >= 3
      [] OTHER                                       -> TRUE

\* C26: every mesh's vertex count is the number of points generated for it,
\* the number of floats uploaded divided by two, and it fits the topology:
\* a multiple of 3 for triangle lists, a multiple of 2 for line lists, at
\* least 3 for fans and strips.
C26_CountsFitTopology ==
    \A key \in Made :
        /\ Len(meshes[key].data) = 2 * meshes[key].count
        /\ meshes[key].count > 0
        /\ FitsTopology(meshes[key].mode, meshes[key].count)

\* C26 witness: a program with strips, fans, line lists and triangle lists
\* has made all its meshes, the line-list numerals too
C26_Witness ==
    /\ variant = "stroke"
    /\ pc = "loopTest"
    /\ Made = MeshKeys(variant) \ {SlotZero}
    /\ {meshes[key].mode : key \in Made}
            = {"TRIANGLE_STRIP", "TRIANGLE_FAN", "LINES", "TRIANGLES"}


(***************************************************************************)
(* C27: the shared buffer.                                                 *)
(***************************************************************************)
\* the statements main runs before the loop, and how many of them have run
Building == BuildStmts(variant)
Ran == IF pc = "build" THEN Len(Building) - Len(code) ELSE Len(Building)

\* the generator call that filled the buffer for the mesh variable of key
GenCallOf(key) ==
    Building[(CHOOSE i \in 1..Len(Building) :
                  Building[i].op = "makeMesh" /\ Building[i].key = key) - 1]

\* C27: a generator's output depends on its parameters only, not on what the
\* shared buffer held when it was called: after every generator call the
\* buffer is what the same call leaves in an empty buffer, so that two calls
\* with identical parameters give identical vertex sequences, and every mesh
\* holds the vertices of its own shape and none of the shape generated
\* before it.
C27_GeneratorsStartAfresh ==
    NumeralsFresh =>
        /\ (pc = "build" /\ Ran >= 1 /\ Building[Ran].op = "gen") =>
                tmp = RunGen(Building[Ran], <<>>)
        /\ \A key \in Made :
                /\ key[2] = 0 => meshes[key].data = RunGen(GenCallOf(key), <<>>)
                /\ (key[2] # 0 /\ variant = "noticks") =>
                        /\ meshes[key].data = genDigit(<<>>, key[2] % 10)
                        /\ (Ran >= 1 /\ Building[Ran].key = key) =>
                                tmp = meshes[key].data

\* C27 witness: the program that generates its glyphs into the shared buffer
\* has made the mesh of index 11 from a buffer that held the longer glyph of
\* index 10 before
C27_Witness ==
    /\ variant = "noticks"
    /\ pc = "build"
    /\ Len(code) = 1
    /\ meshes[<<"digits", 11>>].vao # 0
    /\ tmp = meshes[<<"digits", 11>>].data
    /\ Len(tmp) < Len(meshes[<<"digits", 10>>].data)


(***************************************************************************)
(* C28: the ticking and the sweeping programs at the same instant.         *)
(***************************************************************************)
\* the programs that take s = tm_sec, and those that take s = tm_sec + frac
TickingPrograms == {"stroke", "filled", "block", "noticks"}
SweepingPrograms == {"plain", "spade"}

\* how far a hand that goes round in `per` seconds travels in the fraction of
\* a second of the timestamp
FracTravel(per) == tm.frac * (TURN \div (per * SubDen))

\* C28 as stated: for the same timestamp every program computes the same
\* minute-hand angle and the same hour-hand angle, whether its second hand
\* ticks or sweeps.
C28_SameMinuteAndHourAngle ==
    AnglesComputed =>
        \A w \in Variants :
            aM = minuteAngle(w, tm) /\ aH = hourAngle(w, tm)

\* C28 as the code has it: the ticking programs agree with each other on all
\* three angles; a sweeping program is ahead of them, clockwise, by the travel
\* of each hand in the fraction of the second: less than one second's travel,
\* and none when the timestamp is a whole second.
C28_SameUpToTheFraction ==
    AnglesComputed =>
        LET d == IF variant \in SweepingPrograms THEN 1 ELSE 0
        IN  \A w \in TickingPrograms :
                /\ aS = secondAngle(w, tm) - d * FracTravel(60)
                /\ aM = minuteAngle(w, tm) - d * FracTravel(3600)
                /\ aH = hourAngle(w, tm) - d * FracTravel(43200)
                /\ d * FracTravel(3600) * 3600 < TURN

\* C28 witness: a sweeping program has computed its angles half-way through a
\* second and its minute hand is not where a ticking program has it
C28_Witness ==
    /\ AnglesComputed
    /\ variant \in SweepingPrograms
    /\ tm.frac # 0
    /\ aM # minuteAngle("stroke", tm)
    /\ aH # hourAngle("stroke", tm)


(***************************************************************************)
(* C29: the tails of the hands of the filled-numeral program.              *)
(***************************************************************************)
\* the three points of triangle k of a triangle list
TriOf(data, k) == <<Pt(data, 3 * k - 2), Pt(data, 3 * k - 1), Pt(data, 3 * k)>>

\* twice the signed area of a triangle
Area2(t) ==
    (t[2][1] - t[1][1]) * (t[3][2] - t[1][2])
        - (t[3][1] - t[1][1]) * (t[2][2] - t[1][2])

\* where the two tail triangles are in the hand meshes of the filled-numeral
\* program: after the needle in the second hand, before the hub; last in the
\* hour and the minute hand
TailTris(key) ==
    IF key = <<"secHand", 0>> THEN {3, 4}
    ELSE {meshes[key].count \div 3 - 1, meshes[key].count \div 3}

FilledHands == {<<"hourHand", 0>>, <<"minHand", 0>>, <<"secHand", 0>>}

\* the vertices of the tail of the hand mesh of key
TailPts(key) ==
    UNION {{TriOf(meshes[key].data, k)[j] : j \in 1..3} : k \in TailTris(key)}

\* C29: in the filled-numeral program of main.cpp the tail of each hand is a
\* rectangle: its two triangles are both non-degenerate and all four corners
\* (-W/2, 0), (W/2, 0), (W/2, -TAIL), (-W/2, -TAIL) are among their vertices.
C29_TailsAreRectangles ==
    variant = "filled" =>
        \A key \in FilledHands \cap Made :
            LET pts  == TailPts(key)
                half == MaxOf({q[1] : q \in pts})
                low  == MinOf({q[2] : q \in pts})
            IN  /\ \A k \in TailTris(key) : Area2(TriOf(meshes[key].data, k)) # 0
                /\ {<<-half, 0>>, <<half, 0>>, <<half, low>>, <<-half, low>>}
                        \subseteq pts


(***************************************************************************)
(* C30: the minute hand and the numerals of part_002.                      *)
(***************************************************************************)
\* the squared distance from the pivot to vertex k of the mesh of draw call
\* d, as the vertex stage places it
PlacedDist2(d, k) ==
    LET q == kVS(Pt(meshes[d.key].data, k), d.angle, d.scale, d.trans)
    IN  q[1] * q[1] + q[2] * q[2]

\* C30: in part_002 the minute hand ends before the numerals: its reach L at
\* scale 1.0 is smaller than the distance from the pivot to the nearest vertex
\* of every numeral glyph as it is placed at radius rNum with scale sNum.
C30_MinuteHandEndsBeforeNumerals ==
    variant = "noticks" =>
        \A i \in Drawn :
            LET d == drawLog[i]
                L == HandTip(<<"mm", 0>>)[2]
            IN  (d.role = "numeral" /\ d.prog # 0) =>
                    \A k \in 1..meshes[d.key].count : L * L < PlacedDist2(d, k)

=============================================================================
